---- MODULE Spec2Model ----
(***************************************************************************)
(* Model of jlabel / jlabel-question: wildcard question patterns are       *)
(* resolved to a label position (parse_position.rs), their core texts are  *)
(* compiled to a range (position.rs), and the compiled question is tested  *)
(* against a parsed full-context label (lib.rs, jlabel/parser.rs).         *)
(*                                                                         *)
(* Strings are sequences of one-character strings; indices in comments are *)
(* the 0-based byte indices of the Rust code, the TLA+ sequences are       *)
(* 1-based.                                                                *)
(***************************************************************************)
EXTENDS Integers, Sequences, FiniteSets, TLC

VARIABLES
    debug,      \* build profile: TRUE = overflow checks and debug assertions on
    pool,       \* the question-file entry being loaded: the patterns on offer
    patterns,   \* the pattern list handed to AllQuestion::parse
    pc,         \* "input" | "parsed" | "tested" | "fb_parsed" | "fb_tested" |
                \* "rx_parsed" | "rx_tested" | "rf_tested" | "panicked"
    question,   \* outcome of AllQuestion::parse
    fallback,   \* outcome of NoOpFallback / RegexFallback::<AllQuestion>::parse
    regex,      \* outcome of RegexQuestion::parse
    wire,       \* the tokens of the label text last tested
    text,       \* label.to_string() of the label last tested by a regex
    result      \* outcome of the last test

vars == <<debug, pool, patterns, pc, question, fallback, regex, wire, text,
          result>>

\* ------------------------------------------------------------------------
\* Option values
\* ------------------------------------------------------------------------
None == [some |-> FALSE]
Some(x) == [some |-> TRUE, v |-> x]

\* ------------------------------------------------------------------------
\* Strings
\* ------------------------------------------------------------------------
DigitChars == <<"0", "1", "2", "3", "4", "5", "6", "7", "8", "9">>

IsDigit(c) == \E i \in 1..10 : DigitChars[i] = c

DigitVal(c) == (CHOOSE i \in 1..10 : DigitChars[i] = c) - 1

\* s[from..to) with 0-based bounds, as the Rust slice &s[from..to]
Slice(s, from, to) == IF to <= from THEN << >> ELSE SubSeq(s, from + 1, to)

starts_with(s, t) == Len(t) <= Len(s) /\ SubSeq(s, 1, Len(t)) = t

ends_with(s, t) == Len(t) <= Len(s) /\ SubSeq(s, Len(s) - Len(t) + 1, Len(s)) = t

XX == <<"x", "x">>

RECURSIVE DecVal(_)
DecVal(ds) == IF ds = << >> THEN 0
              ELSE 10 * DecVal(SubSeq(ds, 1, Len(ds) - 1)) + DigitVal(ds[Len(ds)])

RECURSIVE NatStr(_)
NatStr(n) == IF n < 10 THEN <<DigitChars[n + 1]>>
             ELSE NatStr(n \div 10) \o <<DigitChars[(n % 10) + 1]>>

\* Display of an integer, as `{}` formats it
IntStr(n) == IF n < 0 THEN <<"-">> \o NatStr(0 - n) ELSE NatStr(n)

\* ------------------------------------------------------------------------
\* Fixed-width integers
\* ------------------------------------------------------------------------
U8_MAX == 255
I8_MIN == -128
I8_MAX == 127

WrapU8(n) == n % 256
WrapI8(n) == ((n + 128) % 256) - 128

\* str::parse::<u8>() / str::parse::<i8>(): an optional sign ('+', and '-'
\* for the signed type), then at least one decimal digit, value in range.
ParseInt(s, signed) ==
    LET signChar == Len(s) > 0 /\ (s[1] = "+" \/ (s[1] = "-" /\ signed))
        digits == IF signChar THEN SubSeq(s, 2, Len(s)) ELSE s
        neg == signChar /\ s[1] = "-"
        mag == DecVal(digits)
        val == IF neg THEN 0 - mag ELSE mag
        lo == IF signed THEN I8_MIN ELSE 0
        hi == IF signed THEN I8_MAX ELSE U8_MAX
    IN  IF digits = << >> \/ \E i \in 1..Len(digits) : ~IsDigit(digits[i])
        THEN [ok |-> FALSE]
        ELSE IF val < lo \/ val > hi THEN [ok |-> FALSE]
        ELSE [ok |-> TRUE, v |-> val]

\* ------------------------------------------------------------------------
\* Positions (position.rs): the closed enumeration, by value kind
\* ------------------------------------------------------------------------
PhonePosition == {"P1", "P2", "P3", "P4", "P5"}

SignedRangePosition == {"A1"}

UnsignedRangePosition ==
    {"A2", "A3", "E1", "E2", "F1", "F2", "F5", "F6", "F7", "F8", "G1", "G2",
     "H1", "H2", "I1", "I2", "I3", "I4", "I5", "I6", "I7", "I8", "J1", "J2",
     "K1", "K2", "K3"}

BooleanPosition == {"E3", "E5", "F3", "G3", "G5"}

CategoryPosition == {"B1", "B2", "B3", "C1", "C2", "C3", "D1", "D2", "D3"}

UndefinedPotision == {"E4", "F4", "G4"}

AllPosition ==
    PhonePosition \cup SignedRangePosition \cup UnsignedRangePosition
        \cup BooleanPosition \cup CategoryPosition \cup UndefinedPotision

\* the variant of AllPosition a position belongs to
KindOf(position) ==
    IF position \in PhonePosition THEN "Phone"
    ELSE IF position \in SignedRangePosition THEN "SignedRange"
    ELSE IF position \in UnsignedRangePosition THEN "UnsignedRange"
    ELSE IF position \in BooleanPosition THEN "Boolean"
    ELSE IF position \in CategoryPosition THEN "Category"
    ELSE "Undefined"

\* ------------------------------------------------------------------------
\* parse_position.rs
\* ------------------------------------------------------------------------
PrefixDelims == {"!", "#", "%", "&", "+", "-", "=", "@", "^", "_", "|", ":"}

SuffixDelims == {"!", "#", "%", "&", "+", "-", "=", "@", "^", "_", "|", "/"}

\* (pattern without its outer asterisks, (leading star, trailing star))
trim_asterisk(input_pattern) ==
    LET lead == Len(input_pattern) > 0 /\ input_pattern[1] = "*"
        p1 == IF lead THEN Tail(input_pattern) ELSE input_pattern
        trail == Len(p1) > 0 /\ p1[Len(p1)] = "*"
        p2 == IF trail THEN SubSeq(p1, 1, Len(p1) - 1) ELSE p1
    IN  [pattern |-> p2, stars |-> <<lead, trail>>]

\* 0-based index of the last byte of the prefix and of the first byte of the
\* suffix
find_delim_marks(pattern) ==
    LET n == Len(pattern)
        pre == {i \in 0..(n - 1) : pattern[i + 1] \in PrefixDelims}
        suf == {i \in 0..(n - 1) : pattern[i + 1] \in SuffixDelims}
        prefix == IF pre = {} THEN None
                  ELSE Some(CHOOSE i \in pre : \A j \in pre : i <= j)
        suffix == IF suf = {} THEN None
                  ELSE Some(CHOOSE i \in suf : \A j \in suf : j <= i)
    IN  IF prefix.some /\ suffix.some
        THEN IF prefix.v < suffix.v THEN <<prefix, suffix>>
             ELSE IF prefix.v = n - 1 THEN <<None, suffix>>
             ELSE <<prefix, None>>
        ELSE <<prefix, suffix>>

MultiForwardTable ==
    [A |-> "A1", B |-> "B1", C |-> "C1", D |-> "D1", E |-> "E1", F |-> "F1",
     G |-> "G1", H |-> "H1", I |-> "I1", J |-> "J1", K |-> "K1"]

\* a resolver without the multi-byte forward rule
multi_forward_none(pattern, prefix) == None

multi_forward(pattern, prefix) ==
    IF prefix < 1 THEN None
    ELSE IF pattern[prefix + 1] = ":" /\ pattern[prefix] \in DOMAIN MultiForwardTable
         THEN Some(MultiForwardTable[pattern[prefix]])
         ELSE None

MultiReverseTable ==
    [A |-> "P5", B |-> "A3", C |-> "B3", D |-> "C3", E |-> "D3", F |-> "E5",
     G |-> "F8", H |-> "G5", I |-> "H2", J |-> "I8", K |-> "J2"]

multi_reverse(pattern, suffix) ==
    IF Len(pattern) <= suffix + 1 THEN None
    ELSE IF pattern[suffix + 1] = "/" /\ pattern[suffix + 2] \in DOMAIN MultiReverseTable
         THEN Some(MultiReverseTable[pattern[suffix + 2]])
         ELSE None

SingleForwardTable ==
    ("^" :> "P2") @@ ("=" :> "P5") @@ ("!" :> "E3") @@ ("#" :> "F3")
        @@ ("%" :> "G3") @@ ("&" :> "I5")

single_forward(c) ==
    IF c \in DOMAIN SingleForwardTable THEN Some(SingleForwardTable[c]) ELSE None

SingleReverseTable ==
    ("^" :> "P1") @@ ("=" :> "P4") @@ ("!" :> "E2") @@ ("#" :> "F2")
        @@ ("%" :> "G2") @@ ("&" :> "I4")

single_reverse(c) ==
    IF c \in DOMAIN SingleReverseTable THEN Some(SingleReverseTable[c]) ELSE None

\* the combination table with the entry of ('^', '-') naming another field
\* than the single-byte forward rule does for '^'
CombinationTable_shifted ==
    (<<"^", "-">> :> "P3") @@ (<<"-", "+">> :> "P3") @@ (<<"+", "=">> :> "P4")
        @@ (<<"_", "_">> :> "G4") @@ (<<"+", "-">> :> "K2")

CombinationTable ==
    (<<"^", "-">> :> "P2") @@ (<<"-", "+">> :> "P3") @@ (<<"+", "=">> :> "P4")
        @@ (<<"=", "/">> :> "P5")
        @@ (<<"+", "+">> :> "A2")
        @@ (<<"-", "_">> :> "B2")
        @@ (<<"_", "+">> :> "C2")
        @@ (<<"+", "_">> :> "D2")
        @@ (<<"_", "!">> :> "E2") @@ (<<"!", "_">> :> "E3")
        @@ (<<"_", "-">> :> "E4") @@ (<<"-", "/">> :> "E5")
        @@ (<<"_", "#">> :> "F2") @@ (<<"#", "_">> :> "F3")
        @@ (<<"_", "@">> :> "F4") @@ (<<"@", "_">> :> "F5")
        @@ (<<"_", "|">> :> "F6") @@ (<<"|", "_">> :> "F7")
        @@ (<<"_", "%">> :> "G2") @@ (<<"%", "_">> :> "G3")
        @@ (<<"_", "_">> :> "G4")
        @@ (<<"-", "@">> :> "I2") @@ (<<"@", "+">> :> "I3")
        @@ (<<"+", "&">> :> "I4") @@ (<<"&", "-">> :> "I5")
        @@ (<<"-", "|">> :> "I6") @@ (<<"|", "+">> :> "I7")
        @@ (<<"+", "-">> :> "K2")

combination_match(prefix, suffix) ==
    IF <<prefix, suffix>> \in DOMAIN CombinationTable
    THEN Some(CombinationTable[<<prefix, suffix>>])
    ELSE None

\* match_position with the terminal-field rule tried last
match_position_terminal_last(pattern, prefix, suffix, asterisks) ==
    LET fwd == IF prefix.some
               THEN LET m == multi_forward(pattern, prefix.v)
                    IN  IF m.some THEN m
                        ELSE single_forward(pattern[prefix.v + 1])
               ELSE None
        rev == IF suffix.some
               THEN LET m == multi_reverse(pattern, suffix.v)
                    IN  IF m.some THEN m
                        ELSE single_reverse(pattern[suffix.v + 1])
               ELSE None
        comb == IF prefix.some /\ suffix.some
                THEN combination_match(pattern[prefix.v + 1], pattern[suffix.v + 1])
                ELSE None
    IN  IF fwd.some THEN [ok |-> TRUE, position |-> fwd.v]
        ELSE IF rev.some THEN [ok |-> TRUE, position |-> rev.v]
        ELSE IF comb.some THEN [ok |-> TRUE, position |-> comb.v]
        ELSE IF ~suffix.some /\ ~asterisks[2] THEN [ok |-> TRUE, position |-> "K3"]
        ELSE [ok |-> FALSE, err |-> "NoMatchingPosition"]

\* Result<AllPosition, PositionError>
match_position(pattern, prefix, suffix, asterisks) ==
    LET fwd == IF prefix.some
               THEN LET m == multi_forward(pattern, prefix.v)
                    IN  IF m.some THEN m
                        ELSE single_forward(pattern[prefix.v + 1])
               ELSE None
        rev == IF suffix.some
               THEN LET m == multi_reverse(pattern, suffix.v)
                    IN  IF m.some THEN m
                        ELSE single_reverse(pattern[suffix.v + 1])
               ELSE None
        comb == IF prefix.some /\ suffix.some
                THEN combination_match(pattern[prefix.v + 1], pattern[suffix.v + 1])
                ELSE None
    IN  IF ~suffix.some /\ ~asterisks[2] THEN [ok |-> TRUE, position |-> "K3"]
        ELSE IF fwd.some THEN [ok |-> TRUE, position |-> fwd.v]
        ELSE IF rev.some THEN [ok |-> TRUE, position |-> rev.v]
        ELSE IF comb.some THEN [ok |-> TRUE, position |-> comb.v]
        ELSE [ok |-> FALSE, err |-> "NoMatchingPosition"]

Blk(letter) == <<"/", letter, ":">>

\* canonical (prefix, suffix) delimiters of a position
reverse_hint ==
    [P1 |-> <<<< >>, <<"^">>>>, P2 |-> <<<<"^">>, <<"-">>>>,
     P3 |-> <<<<"-">>, <<"+">>>>, P4 |-> <<<<"+">>, <<"=">>>>,
     P5 |-> <<<<"=">>, Blk("A")>>,
     A1 |-> <<Blk("A"), <<"+">>>>, A2 |-> <<<<"+">>, <<"+">>>>,
     A3 |-> <<<<"+">>, Blk("B")>>,
     B1 |-> <<Blk("B"), <<"-">>>>, B2 |-> <<<<"-">>, <<"_">>>>,
     B3 |-> <<<<"_">>, Blk("C")>>,
     C1 |-> <<Blk("C"), <<"_">>>>, C2 |-> <<<<"_">>, <<"+">>>>,
     C3 |-> <<<<"+">>, Blk("D")>>,
     D1 |-> <<Blk("D"), <<"+">>>>, D2 |-> <<<<"+">>, <<"_">>>>,
     D3 |-> <<<<"_">>, Blk("E")>>,
     E1 |-> <<Blk("E"), <<"_">>>>, E2 |-> <<<<"_">>, <<"!">>>>,
     E3 |-> <<<<"!">>, <<"_">>>>, E4 |-> <<<<"_">>, <<"-">>>>,
     E5 |-> <<<<"-">>, Blk("F")>>,
     F1 |-> <<Blk("F"), <<"_">>>>, F2 |-> <<<<"_">>, <<"#">>>>,
     F3 |-> <<<<"#">>, <<"_">>>>, F4 |-> <<<<"_">>, <<"@">>>>,
     F5 |-> <<<<"@">>, <<"_">>>>, F6 |-> <<<<"_">>, <<"|">>>>,
     F7 |-> <<<<"|">>, <<"_">>>>, F8 |-> <<<<"_">>, Blk("G")>>,
     G1 |-> <<Blk("G"), <<"_">>>>, G2 |-> <<<<"_">>, <<"%">>>>,
     G3 |-> <<<<"%">>, <<"_">>>>, G4 |-> <<<<"_">>, <<"_">>>>,
     G5 |-> <<<<"_">>, Blk("H")>>,
     H1 |-> <<Blk("H"), <<"_">>>>, H2 |-> <<<<"_">>, Blk("I")>>,
     I1 |-> <<Blk("I"), <<"-">>>>, I2 |-> <<<<"-">>, <<"@">>>>,
     I3 |-> <<<<"@">>, <<"+">>>>, I4 |-> <<<<"+">>, <<"&">>>>,
     I5 |-> <<<<"&">>, <<"-">>>>, I6 |-> <<<<"-">>, <<"|">>>>,
     I7 |-> <<<<"|">>, <<"+">>>>, I8 |-> <<<<"+">>, Blk("J")>>,
     J1 |-> <<Blk("J"), <<"_">>>>, J2 |-> <<<<"_">>, Blk("K")>>,
     K1 |-> <<Blk("K"), <<"+">>>>, K2 |-> <<<<"+">>, <<"-">>>>,
     K3 |-> <<<<"-">>, << >>>>]

\* generate_range asking the pattern's text to end / start with the hint
generate_range_reversed(position, pattern, prefix, suffix) ==
    LET pre == IF prefix.some THEN prefix.v + 1 ELSE 0
        suf == IF suffix.some THEN suffix.v ELSE Len(pattern)
        hint == reverse_hint[position]
    IN  IF ~ends_with(Slice(pattern, 0, pre), hint[1])
        THEN [ok |-> FALSE, err |-> "PrefixVerifyError"]
        ELSE IF ~starts_with(Slice(pattern, suf, Len(pattern)), hint[2])
        THEN [ok |-> FALSE, err |-> "SuffixVerifyError"]
        ELSE [ok |-> TRUE, start |-> pre, end |-> suf]

\* generate_range asking the pattern's text to be the whole hint
generate_range_exact(position, pattern, prefix, suffix) ==
    LET pre == IF prefix.some THEN prefix.v + 1 ELSE 0
        suf == IF suffix.some THEN suffix.v ELSE Len(pattern)
        hint == reverse_hint[position]
    IN  IF hint[1] # Slice(pattern, 0, pre)
        THEN [ok |-> FALSE, err |-> "PrefixVerifyError"]
        ELSE IF hint[2] # Slice(pattern, suf, Len(pattern))
        THEN [ok |-> FALSE, err |-> "SuffixVerifyError"]
        ELSE [ok |-> TRUE, start |-> pre, end |-> suf]

\* Result<Range<usize>, PositionError>: the 0-based half-open cut of the core
generate_range(position, pattern, prefix, suffix) ==
    LET pre == IF prefix.some THEN prefix.v + 1 ELSE 0
        suf == IF suffix.some THEN suffix.v ELSE Len(pattern)
        hint == reverse_hint[position]
    IN  IF ~ends_with(hint[1], Slice(pattern, 0, pre))
        THEN [ok |-> FALSE, err |-> "PrefixVerifyError"]
        ELSE IF ~starts_with(hint[2], Slice(pattern, suf, Len(pattern)))
        THEN [ok |-> FALSE, err |-> "SuffixVerifyError"]
        ELSE [ok |-> TRUE, start |-> pre, end |-> suf]

\* estimate_position without the two asterisk checks
estimate_position_nostar(input_pattern) ==
    LET t == trim_asterisk(input_pattern)
        pattern == t.pattern
        marks == find_delim_marks(pattern)
        m == match_position(pattern, marks[1], marks[2], t.stars)
    IN  IF ~m.ok THEN m
        ELSE LET r == generate_range(m.position, pattern, marks[1], marks[2])
             IN  IF ~r.ok THEN r
                 ELSE IF r.start >= r.end
                 THEN [ok |-> FALSE, err |-> "EmptyRange"]
                 ELSE [ok |-> TRUE, position |-> m.position,
                       range |-> Slice(pattern, r.start, r.end)]

\* estimate_position without the check of the empty core
estimate_position_noempty(input_pattern) ==
    LET t == trim_asterisk(input_pattern)
        pattern == t.pattern
        asterisks == t.stars
        marks == find_delim_marks(pattern)
        m == match_position(pattern, marks[1], marks[2], asterisks)
    IN  IF ~m.ok THEN m
        ELSE IF m.position # "P1" /\ ~asterisks[1]
        THEN [ok |-> FALSE, err |-> "MissingPrefixAsterisk"]
        ELSE IF m.position # "K3" /\ ~asterisks[2]
        THEN [ok |-> FALSE, err |-> "MissingSuffixAsterisk"]
        ELSE LET r == generate_range(m.position, pattern, marks[1], marks[2])
             IN  IF ~r.ok THEN r
                 ELSE [ok |-> TRUE, position |-> m.position,
                       range |-> Slice(pattern, r.start, r.end)]

\* Result<(AllPosition, &str), PositionError>
estimate_position(input_pattern) ==
    LET t == trim_asterisk(input_pattern)
        pattern == t.pattern
        asterisks == t.stars
        marks == find_delim_marks(pattern)
        m == match_position(pattern, marks[1], marks[2], asterisks)
    IN  IF ~m.ok THEN m
        ELSE IF m.position # "P1" /\ ~asterisks[1]
        THEN [ok |-> FALSE, err |-> "MissingPrefixAsterisk"]
        ELSE IF m.position # "K3" /\ ~asterisks[2]
        THEN [ok |-> FALSE, err |-> "MissingSuffixAsterisk"]
        ELSE LET r == generate_range(m.position, pattern, marks[1], marks[2])
             IN  IF ~r.ok THEN r
                 ELSE IF r.start >= r.end
                 THEN [ok |-> FALSE, err |-> "EmptyRange"]
                 ELSE [ok |-> TRUE, position |-> m.position,
                       range |-> Slice(pattern, r.start, r.end)]

\* ------------------------------------------------------------------------
\* position.rs: range compilation
\* ------------------------------------------------------------------------
Ok(x) == [tag |-> "Ok", v |-> x]
Err(e, d) == [tag |-> "Err", err |-> e, detail |-> d]
Panic == [tag |-> "Panic"]

\* the value of an arithmetic expression of type u8 / i8: an overflow panics
\* when the build checks overflow, and wraps otherwise
ArithU8(n) == IF 0 <= n /\ n <= U8_MAX THEN Ok(n)
              ELSE IF debug THEN Panic ELSE Ok(WrapU8(n))

ArithI8(n) == IF I8_MIN <= n /\ n <= I8_MAX THEN Ok(n)
              ELSE IF debug THEN Panic ELSE Ok(WrapI8(n))

Rng(start, end) == [start |-> start, end |-> end]

\* Range::contains
contains(range, target) == range.start <= target /\ target < range.end

\* d * 10..(d + 1) * 10
DecadeU8(d) ==
    LET lo == ArithU8(d * 10)
        d1 == ArithU8(d + 1)
        hi == IF d1.tag = "Ok" THEN ArithU8(d1.v * 10) ELSE d1
    IN  IF lo.tag # "Ok" THEN lo
        ELSE IF hi.tag # "Ok" THEN hi
        ELSE Ok(Rng(lo.v, hi.v))

\* d..d + 1
UnitU8(d) ==
    LET hi == ArithU8(d + 1)
    IN  IF hi.tag # "Ok" THEN hi ELSE Ok(Rng(d, hi.v))

\* range_u8 with the bare wildcard starting at zero
range_u8_zero(s) ==
    IF s = <<"?">> THEN Ok(Rng(0, 10))
    ELSE IF ends_with(s, <<"?">>)
    THEN LET d == ParseInt(SubSeq(s, 1, Len(s) - 1), FALSE)
         IN  IF ~d.ok THEN Err("FailWildcard", << >>) ELSE DecadeU8(d.v)
    ELSE LET d == ParseInt(s, FALSE)
         IN  IF ~d.ok THEN Err("FailLiteral", << >>) ELSE UnitU8(d.v)

range_u8(s) ==
    IF s = <<"?">> THEN Ok(Rng(1, 10))
    ELSE IF ends_with(s, <<"?">>)
    THEN LET d == ParseInt(SubSeq(s, 1, Len(s) - 1), FALSE)
         IN  IF ~d.ok THEN Err("FailWildcard", << >>) ELSE DecadeU8(d.v)
    ELSE LET d == ParseInt(s, FALSE)
         IN  IF ~d.ok THEN Err("FailLiteral", << >>) ELSE UnitU8(d.v)

DecadeI8(d) ==
    LET lo == ArithI8(d * 10)
        d1 == ArithI8(d + 1)
        hi == IF d1.tag = "Ok" THEN ArithI8(d1.v * 10) ELSE d1
    IN  IF d < 0 /\ debug THEN Panic          \* debug_assert!(d >= 0)
        ELSE IF lo.tag # "Ok" THEN lo
        ELSE IF hi.tag # "Ok" THEN hi
        ELSE Ok(Rng(lo.v, hi.v))

UnitI8(d) ==
    LET hi == ArithI8(d + 1)
    IN  IF hi.tag # "Ok" THEN hi ELSE Ok(Rng(d, hi.v))

\* range_i8 with the one-digit negative band reaching zero
range_i8_closed(s) ==
    IF s = <<"-", "?", "?">> THEN Ok(Rng(-99, -9))
    ELSE IF s = <<"-", "?">> THEN Ok(Rng(-9, 1))
    ELSE IF s = <<"?">> THEN Ok(Rng(0, 10))
    ELSE IF ends_with(s, <<"?">>)
    THEN LET d == ParseInt(SubSeq(s, 1, Len(s) - 1), TRUE)
         IN  IF ~d.ok THEN Err("FailWildcard", << >>) ELSE DecadeI8(d.v)
    ELSE LET d == ParseInt(s, TRUE)
         IN  IF ~d.ok THEN Err("FailLiteral", << >>) ELSE UnitI8(d.v)

range_i8(s) ==
    IF s = <<"-", "?", "?">> THEN Ok(Rng(-99, -9))
    ELSE IF s = <<"-", "?">> THEN Ok(Rng(-9, 0))
    ELSE IF s = <<"?">> THEN Ok(Rng(0, 10))
    ELSE IF ends_with(s, <<"?">>)
    THEN LET d == ParseInt(SubSeq(s, 1, Len(s) - 1), TRUE)
         IN  IF ~d.ok THEN Err("FailWildcard", << >>) ELSE DecadeI8(d.v)
    ELSE LET d == ParseInt(s, TRUE)
         IN  IF ~d.ok THEN Err("FailLiteral", << >>) ELSE UnitI8(d.v)

\* ranges.sort_unstable_by_key(|range| range.start): slices this short are
\* sorted by insertion, which moves an element only before a strictly larger
\* key
RECURSIVE InsertByStart(_, _)
InsertByStart(sorted, r) ==
    IF sorted = << >> THEN <<r>>
    ELSE IF r.start < sorted[Len(sorted)].start
         THEN Append(InsertByStart(SubSeq(sorted, 1, Len(sorted) - 1), r),
                     sorted[Len(sorted)])
         ELSE Append(sorted, r)

\* merge_ranges without its sort
SortByStart_none(ranges) == ranges

RECURSIVE SortByStart(_)
SortByStart(ranges) ==
    IF ranges = << >> THEN << >>
    ELSE InsertByStart(SortByStart(SubSeq(ranges, 1, Len(ranges) - 1)),
                       ranges[Len(ranges)])

Min(a, b) == IF a <= b THEN a ELSE b
Max(a, b) == IF a >= b THEN a ELSE b

\* the fold of merge_ranges accepting the next interval without extending
\* the accumulator
MergeStep_keep(acc, curr) ==
    IF acc.tag = "Err" /\ acc.err = "Empty" THEN Ok(curr)
    ELSE IF acc.tag = "Ok" /\ curr.start <= acc.v.end
    THEN Ok(acc.v)
    ELSE Err("IncontinuousRange", << >>)

\* one step of the fold of merge_ranges
MergeStep(acc, curr) ==
    IF acc.tag = "Err" /\ acc.err = "Empty" THEN Ok(curr)
    ELSE IF acc.tag = "Ok" /\ curr.start <= acc.v.end
    THEN Ok(Rng(Min(acc.v.start, curr.start), Max(acc.v.end, curr.end)))
    ELSE Err("IncontinuousRange", << >>)

RECURSIVE MergeFold(_, _)
MergeFold(acc, ranges) ==
    IF ranges = << >> THEN acc
    ELSE MergeFold(MergeStep(acc, Head(ranges)), Tail(ranges))

merge_ranges(ranges) == MergeFold(Err("Empty", << >>), SortByStart(ranges))

\* iter().map(f).collect::<Result<Vec<_>, _>>(): the items in order, stopping
\* at the first error (or panic)
RECURSIVE CollectResults(_)
CollectResults(outcomes) ==
    IF outcomes = << >> THEN Ok(<< >>)
    ELSE IF Head(outcomes).tag # "Ok" THEN Head(outcomes)
    ELSE LET rest == CollectResults(Tail(outcomes))
         IN  IF rest.tag # "Ok" THEN rest
             ELSE Ok(<<Head(outcomes).v>> \o rest.v)

SignedRange_range(ranges) ==
    LET parsed == CollectResults([i \in 1..Len(ranges) |-> range_i8(ranges[i])])
    IN  IF parsed.tag # "Ok" THEN parsed ELSE merge_ranges(parsed.v)

UnsignedRange_range(ranges) ==
    LET parsed == CollectResults([i \in 1..Len(ranges) |-> range_u8(ranges[i])])
    IN  IF parsed.tag # "Ok" THEN parsed ELSE merge_ranges(parsed.v)

Phone_range(ranges) == Ok(ranges)

Boolean_range(position, ranges) ==
    IF ranges = << >> THEN Err("Empty", << >>)
    ELSE IF ranges[1] = <<"0">> THEN Ok(FALSE)
    ELSE IF ranges[1] = <<"1">> THEN Ok(TRUE)
    ELSE Err("InvalidBoolean", ranges[1])

\* CategoryPosition::range reading the first core text only, as
\* BooleanPosition::range does
Category_range_first(ranges) ==
    CollectResults([i \in 1..Min(1, Len(ranges)) |->
        LET d == ParseInt(ranges[i], FALSE)
        IN  IF d.ok THEN Ok(d.v) ELSE Err("FailLiteral", << >>)])

Category_range(ranges) ==
    CollectResults([i \in 1..Len(ranges) |->
        LET d == ParseInt(ranges[i], FALSE)
        IN  IF d.ok THEN Ok(d.v) ELSE Err("FailLiteral", << >>)])

Undefined_range(ranges) == Ok("unit")

\* Position::range, by kind
Position_range(position, ranges) ==
    CASE KindOf(position) = "Phone" -> Phone_range(ranges)
      [] KindOf(position) = "SignedRange" -> SignedRange_range(ranges)
      [] KindOf(position) = "UnsignedRange" -> UnsignedRange_range(ranges)
      [] KindOf(position) = "Boolean" -> Boolean_range(position, ranges)
      [] KindOf(position) = "Category" -> Category_range(ranges)
      [] KindOf(position) = "Undefined" -> Undefined_range(ranges)

\* Position::test, by kind
Position_test(position, range, target) ==
    CASE KindOf(position) = "Phone" -> \E i \in 1..Len(range) : range[i] = target
      [] KindOf(position) = "SignedRange" -> contains(range, target)
      [] KindOf(position) = "UnsignedRange" -> contains(range, target)
      [] KindOf(position) = "Boolean" -> range = target
      [] KindOf(position) = "Category" -> \E i \in 1..Len(range) : range[i] = target
      [] KindOf(position) = "Undefined" -> TRUE

\* ------------------------------------------------------------------------
\* lib.rs: Question and AllQuestion
\* ------------------------------------------------------------------------
\* Question::new taking every list that holds "xx" for the sentinel
Question_new_anyxx(position, ranges) ==
    IF \E i \in 1..Len(ranges) : ranges[i] = XX
    THEN Ok([kind |-> KindOf(position), position |-> position, range |-> None])
    ELSE LET r == Position_range(position, ranges)
         IN  IF r.tag # "Ok" THEN r
             ELSE Ok([kind |-> KindOf(position), position |-> position,
                      range |-> Some(r.v)])

\* Question::new
Question_new(position, ranges) ==
    IF ranges = <<XX>>
    THEN Ok([kind |-> KindOf(position), position |-> position, range |-> None])
    ELSE LET r == Position_range(position, ranges)
         IN  IF r.tag # "Ok" THEN r
             ELSE Ok([kind |-> KindOf(position), position |-> position,
                      range |-> Some(r.v)])

\* the loop of AllQuestion::parse keeping the first position and never
\* comparing the later ones with it
RECURSIVE ParseLoop_unchecked(_, _, _, _)
ParseLoop_unchecked(pats, i, position, ranges) ==
    IF i > Len(pats)
    THEN IF ~position.some THEN Err("Empty", << >>)
         ELSE Question_new(position.v, ranges)
    ELSE LET e == estimate_position(pats[i])
         IN  IF ~e.ok THEN Err("InvalidPosition", <<e.err>>)
             ELSE ParseLoop_unchecked(pats, i + 1,
                      IF position.some THEN position ELSE Some(e.position),
                      Append(ranges, e.range))

\* the loop of AllQuestion::parse over patterns[i..]: position is the
\* Option<AllPosition> so far, ranges the core texts so far
RECURSIVE ParseLoop(_, _, _, _)
ParseLoop(pats, i, position, ranges) ==
    IF i > Len(pats)
    THEN IF ~position.some THEN Err("Empty", << >>)
         ELSE Question_new(position.v, ranges)
    ELSE LET e == estimate_position(pats[i])
         IN  IF ~e.ok THEN Err("InvalidPosition", <<e.err>>)
             ELSE IF position.some /\ e.position # position.v
             THEN Err("PositionMismatch", << >>)
             ELSE ParseLoop(pats, i + 1, Some(e.position), Append(ranges, e.range))

\* AllQuestion::parse
AllQuestion_parse(pats) == ParseLoop(pats, 1, None, << >>)

\* ------------------------------------------------------------------------
\* jlabel/parser.rs: the label text, cut into its tokens, to a Label
\* ------------------------------------------------------------------------
string_or_xx(input) == IF input = XX THEN None ELSE Some(input)

\* parse_or_xx::<u8> / parse_or_xx::<i8>
parse_or_xx(input, signed) ==
    IF input = XX THEN Ok(None)
    ELSE LET d == ParseInt(input, signed)
         IN  IF d.ok THEN Ok(Some(d.v)) ELSE Err("ParseIntError", << >>)

parse_bool_or_xx(input) ==
    IF input = XX THEN Ok(None)
    ELSE IF input = <<"0">> THEN Ok(Some(FALSE))
    ELSE IF input = <<"1">> THEN Ok(Some(TRUE))
    ELSE Err("ParseBoolError", << >>)

assert_xx(input) == IF input = XX THEN Ok(None) ELSE Err("NotUndefined", << >>)

\* str::parse::<u8>() of a token that may not be xx
parse_u8(input) ==
    LET d == ParseInt(input, FALSE)
    IN  IF d.ok THEN Ok(d.v) ELSE Err("ParseIntError", << >>)

\* LabelTokenizer::p
Tokenizer_p(w) ==
    Ok([p2 |-> string_or_xx(w.p1), p1 |-> string_or_xx(w.p2),
        c |-> string_or_xx(w.p3), n1 |-> string_or_xx(w.p4),
        n2 |-> string_or_xx(w.p5)])

\* the struct a block's tokens t (a Result of their Options) give: Some when
\* all of `required` are present
Block(t, required, struct) ==
    IF t.tag # "Ok" THEN t
    ELSE IF \A i \in required : t.v[i].some THEN Ok(Some(struct))
    ELSE Ok(None)

Mora(f) ==
    [relative_accent_position |-> f[1].v, position_forward |-> f[2].v,
     position_backward |-> f[3].v]

\* LabelTokenizer::a
Tokenizer_a(w) ==
    LET t == CollectResults(<<parse_or_xx(w.a1, TRUE), parse_or_xx(w.a2, FALSE),
                              parse_or_xx(w.a3, FALSE)>>)
    IN  Block(t, {1, 2, 3}, Mora(t.v))

Word(t) ==
    IF t.tag # "Ok" THEN t
    ELSE IF \A i \in 1..3 : ~t.v[i].some THEN Ok(None)
    ELSE Ok(Some([pos |-> t.v[1], ctype |-> t.v[2], cform |-> t.v[3]]))

\* LabelTokenizer::b, ::c and ::d
Tokenizer_word(t1, t2, t3) ==
    Word(CollectResults(<<parse_or_xx(t1, FALSE), parse_or_xx(t2, FALSE),
                          parse_or_xx(t3, FALSE)>>))

AccentPhrasePrevNext(f) ==
    [mora_count |-> f[1].v, accent_position |-> f[2].v,
     is_interrogative |-> f[3].v,
     is_pause_insertion |-> IF f[5].some THEN Some(~f[5].v) ELSE None]

\* LabelTokenizer::e and ::g
Tokenizer_prevnext(t1, t2, t3, t4, t5) ==
    LET t == CollectResults(<<parse_or_xx(t1, FALSE), parse_or_xx(t2, FALSE),
                              parse_bool_or_xx(t3), assert_xx(t4),
                              parse_bool_or_xx(t5)>>)
    IN  Block(t, {1, 2, 3}, AccentPhrasePrevNext(t.v))

AccentPhraseCurrent(f) ==
    [mora_count |-> f[1].v, accent_position |-> f[2].v,
     is_interrogative |-> f[3].v,
     accent_phrase_position_forward |-> f[5].v,
     accent_phrase_position_backward |-> f[6].v,
     mora_position_forward |-> f[7].v,
     mora_position_backward |-> f[8].v]

\* LabelTokenizer::f
Tokenizer_f(w) ==
    LET t == CollectResults(<<parse_or_xx(w.f1, FALSE), parse_or_xx(w.f2, FALSE),
                              parse_bool_or_xx(w.f3), assert_xx(w.f4),
                              parse_or_xx(w.f5, FALSE), parse_or_xx(w.f6, FALSE),
                              parse_or_xx(w.f7, FALSE), parse_or_xx(w.f8, FALSE)>>)
    IN  Block(t, {1, 2, 3, 5, 6, 7, 8}, AccentPhraseCurrent(t.v))

BreathGroupPrevNext(f) ==
    [accent_phrase_count |-> f[1].v, mora_count |-> f[2].v]

\* LabelTokenizer::h and ::j
Tokenizer_breath(t1, t2) ==
    LET t == CollectResults(<<parse_or_xx(t1, FALSE), parse_or_xx(t2, FALSE)>>)
    IN  Block(t, {1, 2}, BreathGroupPrevNext(t.v))

BreathGroupCurrent(f) ==
    [accent_phrase_count |-> f[1].v, mora_count |-> f[2].v,
     breath_group_position_forward |-> f[3].v,
     breath_group_position_backward |-> f[4].v,
     accent_phrase_position_forward |-> f[5].v,
     accent_phrase_position_backward |-> f[6].v,
     mora_position_forward |-> f[7].v,
     mora_position_backward |-> f[8].v]

\* LabelTokenizer::i
Tokenizer_i(w) ==
    LET t == CollectResults(<<parse_or_xx(w.i1, FALSE), parse_or_xx(w.i2, FALSE),
                              parse_or_xx(w.i3, FALSE), parse_or_xx(w.i4, FALSE),
                              parse_or_xx(w.i5, FALSE), parse_or_xx(w.i6, FALSE),
                              parse_or_xx(w.i7, FALSE), parse_or_xx(w.i8, FALSE)>>)
    IN  Block(t, 1..8, BreathGroupCurrent(t.v))

Utterance(t) ==
    IF t.tag # "Ok" THEN t
    ELSE Ok([breath_group_count |-> t.v[1], accent_phrase_count |-> t.v[2],
             mora_count |-> t.v[3]])

\* LabelTokenizer::k
Tokenizer_k(w) ==
    Utterance(CollectResults(<<parse_u8(w.k1), parse_u8(w.k2), parse_u8(w.k3)>>))

Label(t) ==
    IF t.tag # "Ok" THEN t
    ELSE Ok([phoneme |-> t.v[1], mora |-> t.v[2], word_prev |-> t.v[3],
             word_curr |-> t.v[4], word_next |-> t.v[5],
             accent_phrase_prev |-> t.v[6], accent_phrase_curr |-> t.v[7],
             accent_phrase_next |-> t.v[8], breath_group_prev |-> t.v[9],
             breath_group_curr |-> t.v[10], breath_group_next |-> t.v[11],
             utterance |-> t.v[12]])

\* LabelTokenizer::consume
Label_parse(w) ==
    Label(CollectResults(<<
        Tokenizer_p(w), Tokenizer_a(w),
        Tokenizer_word(w.b1, w.b2, w.b3), Tokenizer_word(w.c1, w.c2, w.c3),
        Tokenizer_word(w.d1, w.d2, w.d3),
        Tokenizer_prevnext(w.e1, w.e2, w.e3, w.e4, w.e5),
        Tokenizer_f(w),
        Tokenizer_prevnext(w.g1, w.g2, w.g3, w.g4, w.g5),
        Tokenizer_breath(w.h1, w.h2), Tokenizer_i(w),
        Tokenizer_breath(w.j1, w.j2), Tokenizer_k(w)>>))

\* ------------------------------------------------------------------------
\* position.rs: Position::get
\* ------------------------------------------------------------------------
\* as_ref_map!(label.block.prop)
as_ref_map(block, prop) == IF block.some THEN Some(block.v[prop]) ELSE None

\* as_ref_and_then!(label.block.prop)
as_ref_and_then(block, prop) == IF block.some THEN block.v[prop] ELSE None

Position_get(position, label) ==
    CASE position = "P1" -> label.phoneme.p1
      [] position = "P2" -> label.phoneme.p2
      [] position = "P3" -> label.phoneme.c
      [] position = "P4" -> label.phoneme.n1
      [] position = "P5" -> label.phoneme.n2
      [] position = "A1" -> as_ref_map(label.mora, "relative_accent_position")
      [] position = "A2" -> as_ref_map(label.mora, "position_forward")
      [] position = "A3" -> as_ref_map(label.mora, "position_backward")
      [] position = "B1" -> as_ref_and_then(label.word_prev, "pos")
      [] position = "B2" -> as_ref_and_then(label.word_prev, "ctype")
      [] position = "B3" -> as_ref_and_then(label.word_prev, "cform")
      [] position = "C1" -> as_ref_and_then(label.word_curr, "pos")
      [] position = "C2" -> as_ref_and_then(label.word_curr, "ctype")
      [] position = "C3" -> as_ref_and_then(label.word_curr, "cform")
      [] position = "D1" -> as_ref_and_then(label.word_next, "pos")
      [] position = "D2" -> as_ref_and_then(label.word_next, "ctype")
      [] position = "D3" -> as_ref_and_then(label.word_next, "cform")
      [] position = "E1" -> as_ref_map(label.accent_phrase_prev, "mora_count")
      [] position = "E2" -> as_ref_map(label.accent_phrase_prev, "accent_position")
      [] position = "E3" -> as_ref_map(label.accent_phrase_prev, "is_interrogative")
      [] position = "E5" -> as_ref_and_then(label.accent_phrase_prev, "is_pause_insertion")
      [] position = "F1" -> as_ref_map(label.accent_phrase_curr, "mora_count")
      [] position = "F2" -> as_ref_map(label.accent_phrase_curr, "accent_position")
      [] position = "F3" -> as_ref_map(label.accent_phrase_curr, "is_interrogative")
      [] position = "F5" -> as_ref_map(label.accent_phrase_curr, "accent_phrase_position_forward")
      [] position = "F6" -> as_ref_map(label.accent_phrase_curr, "accent_phrase_position_backward")
      [] position = "F7" -> as_ref_map(label.accent_phrase_curr, "mora_position_forward")
      [] position = "F8" -> as_ref_map(label.accent_phrase_curr, "mora_position_backward")
      [] position = "G1" -> as_ref_map(label.accent_phrase_next, "mora_count")
      [] position = "G2" -> as_ref_map(label.accent_phrase_next, "accent_position")
      [] position = "G3" -> as_ref_map(label.accent_phrase_next, "is_interrogative")
      [] position = "G5" -> as_ref_and_then(label.accent_phrase_next, "is_pause_insertion")
      [] position = "H1" -> as_ref_map(label.breath_group_prev, "accent_phrase_count")
      [] position = "H2" -> as_ref_map(label.breath_group_prev, "mora_count")
      [] position = "I1" -> as_ref_map(label.breath_group_curr, "accent_phrase_count")
      [] position = "I2" -> as_ref_map(label.breath_group_curr, "mora_count")
      [] position = "I3" -> as_ref_map(label.breath_group_curr, "breath_group_position_forward")
      [] position = "I4" -> as_ref_map(label.breath_group_curr, "breath_group_position_backward")
      [] position = "I5" -> as_ref_map(label.breath_group_curr, "accent_phrase_position_forward")
      [] position = "I6" -> as_ref_map(label.breath_group_curr, "accent_phrase_position_backward")
      [] position = "I7" -> as_ref_map(label.breath_group_curr, "mora_position_forward")
      [] position = "I8" -> as_ref_map(label.breath_group_curr, "mora_position_backward")
      [] position = "J1" -> as_ref_map(label.breath_group_next, "accent_phrase_count")
      [] position = "J2" -> as_ref_map(label.breath_group_next, "mora_count")
      [] position = "K1" -> Some(label.utterance.breath_group_count)
      [] position = "K2" -> Some(label.utterance.accent_phrase_count)
      [] position = "K3" -> Some(label.utterance.mora_count)
      [] position \in UndefinedPotision -> None

\* Question::test with the mixed cases falling through to true
Question_test_loose(q, label) ==
    LET target == Position_get(q.position, label)
    IN  IF q.range.some /\ target.some
        THEN Position_test(q.position, q.range.v, target.v)
        ELSE TRUE

\* Question::test
Question_test(q, label) ==
    LET target == Position_get(q.position, label)
    IN  IF q.range.some /\ target.some
        THEN Position_test(q.position, q.range.v, target.v)
        ELSE IF ~q.range.some /\ ~target.some THEN TRUE
        ELSE FALSE

\* AllQuestion::test
AllQuestion_test(q, label) == Question_test(q, label)

\* ------------------------------------------------------------------------
\* fallback/noop.rs: NoOpFallback<AllQuestion>
\* ------------------------------------------------------------------------
\* T::parse(patterns).map(Self::Ok).or(Ok(Self::NoOp)), for the result
\* `inner` of T::parse(patterns)
NoOpFallback_parse(inner) ==
    IF inner.tag = "Panic" THEN Panic
    ELSE IF inner.tag = "Ok" THEN Ok([variant |-> "Ok", inner |-> inner.v])
    ELSE Ok([variant |-> "NoOp"])

\* NoOpFallback::test
NoOpFallback_test(fb, label) ==
    IF fb.variant = "Ok" THEN AllQuestion_test(fb.inner, label) ELSE FALSE

\* ------------------------------------------------------------------------
\* jlabel/serializer.rs: Display for Label
\* ------------------------------------------------------------------------
\* Serializer::all_xx: "xx", then each separator followed by "xx"
RECURSIVE all_xx(_)
all_xx(sep) ==
    IF sep = << >> THEN XX
    ELSE all_xx(SubSeq(sep, 1, Len(sep) - 1)) \o <<sep[Len(sep)]>> \o XX

\* Serializer::or_xx of an Option<String>
or_xx(value) == IF value.some THEN value.v ELSE XX

\* Serializer::d01_or_xx: write!("{:01}", v)
d01_or_xx(value) == IF value.some THEN NatStr(value.v) ELSE XX

\* Serializer::d02_or_xx: write!("{:02}", v), zero-padded to two bytes
d02_or_xx(value) ==
    IF ~value.some THEN XX
    ELSE IF value.v < 10 THEN <<"0">> \o NatStr(value.v)
    ELSE NatStr(value.v)

\* Serializer::bool
Serializer_bool(value) == IF value THEN <<"1">> ELSE <<"0">>

\* Serializer::bool_or_xx
bool_or_xx(value) == IF value.some THEN Serializer_bool(value.v) ELSE XX

\* Option::map(|value| !value)
map_not(value) == IF value.some THEN Some(~value.v) ELSE None

\* Serializer::p
Serializer_p(phoneme) ==
    or_xx(phoneme.p2) \o <<"^">> \o or_xx(phoneme.p1) \o <<"-">>
        \o or_xx(phoneme.c) \o <<"+">> \o or_xx(phoneme.n1) \o <<"=">>
        \o or_xx(phoneme.n2)

\* Serializer::a
Serializer_a(mora) ==
    Blk("A") \o
        (IF mora.some
         THEN IntStr(mora.v.relative_accent_position) \o <<"+">>
                  \o NatStr(mora.v.position_forward) \o <<"+">>
                  \o NatStr(mora.v.position_backward)
         ELSE all_xx(<<"+", "+">>))

\* Serializer::b, ::c and ::d, with the block letter and its two separators
Serializer_word(letter, sep, word) ==
    Blk(letter) \o
        (IF word.some
         THEN d02_or_xx(word.v.pos) \o <<sep[1]>> \o d01_or_xx(word.v.ctype)
                  \o <<sep[2]>> \o d01_or_xx(word.v.cform)
         ELSE all_xx(sep))

\* Serializer::e and ::g writing the pause-insertion flag as it is stored
Serializer_prevnext_direct(letter, sep, phrase) ==
    Blk(letter) \o
        (IF phrase.some
         THEN NatStr(phrase.v.mora_count) \o <<sep[1]>>
                  \o NatStr(phrase.v.accent_position) \o <<sep[2]>>
                  \o Serializer_bool(phrase.v.is_interrogative) \o <<sep[3]>>
                  \o XX \o <<sep[4]>>
                  \o bool_or_xx(phrase.v.is_pause_insertion)
         ELSE all_xx(sep))

\* Serializer::e and ::g, with the block letter and its four separators
Serializer_prevnext(letter, sep, phrase) ==
    Blk(letter) \o
        (IF phrase.some
         THEN NatStr(phrase.v.mora_count) \o <<sep[1]>>
                  \o NatStr(phrase.v.accent_position) \o <<sep[2]>>
                  \o Serializer_bool(phrase.v.is_interrogative) \o <<sep[3]>>
                  \o XX \o <<sep[4]>>
                  \o bool_or_xx(map_not(phrase.v.is_pause_insertion))
         ELSE all_xx(sep))

\* Serializer::f
Serializer_f(phrase) ==
    Blk("F") \o
        (IF phrase.some
         THEN NatStr(phrase.v.mora_count) \o <<"_">>
                  \o NatStr(phrase.v.accent_position) \o <<"#">>
                  \o Serializer_bool(phrase.v.is_interrogative) \o <<"_">>
                  \o XX \o <<"@">>
                  \o NatStr(phrase.v.accent_phrase_position_forward) \o <<"_">>
                  \o NatStr(phrase.v.accent_phrase_position_backward) \o <<"|">>
                  \o NatStr(phrase.v.mora_position_forward) \o <<"_">>
                  \o NatStr(phrase.v.mora_position_backward)
         ELSE all_xx(<<"_", "#", "_", "@", "_", "|", "_">>))

\* Serializer::h and ::j
Serializer_breath(letter, group) ==
    Blk(letter) \o
        (IF group.some
         THEN NatStr(group.v.accent_phrase_count) \o <<"_">>
                  \o NatStr(group.v.mora_count)
         ELSE all_xx(<<"_">>))

\* Serializer::i
Serializer_i(group) ==
    Blk("I") \o
        (IF group.some
         THEN NatStr(group.v.accent_phrase_count) \o <<"-">>
                  \o NatStr(group.v.mora_count) \o <<"@">>
                  \o NatStr(group.v.breath_group_position_forward) \o <<"+">>
                  \o NatStr(group.v.breath_group_position_backward) \o <<"&">>
                  \o NatStr(group.v.accent_phrase_position_forward) \o <<"-">>
                  \o NatStr(group.v.accent_phrase_position_backward) \o <<"|">>
                  \o NatStr(group.v.mora_position_forward) \o <<"+">>
                  \o NatStr(group.v.mora_position_backward)
         ELSE all_xx(<<"-", "@", "+", "&", "-", "|", "+">>))

\* Serializer::k
Serializer_k(utterance) ==
    Blk("K") \o NatStr(utterance.breath_group_count) \o <<"+">>
        \o NatStr(utterance.accent_phrase_count) \o <<"-">>
        \o NatStr(utterance.mora_count)

\* Serializer::fmt: label.to_string()
Label_to_string(label) ==
    Serializer_p(label.phoneme) \o Serializer_a(label.mora)
        \o Serializer_word("B", <<"-", "_">>, label.word_prev)
        \o Serializer_word("C", <<"_", "+">>, label.word_curr)
        \o Serializer_word("D", <<"+", "_">>, label.word_next)
        \o Serializer_prevnext("E", <<"_", "!", "_", "-">>, label.accent_phrase_prev)
        \o Serializer_f(label.accent_phrase_curr)
        \o Serializer_prevnext("G", <<"_", "%", "_", "_">>, label.accent_phrase_next)
        \o Serializer_breath("H", label.breath_group_prev)
        \o Serializer_i(label.breath_group_curr)
        \o Serializer_breath("J", label.breath_group_next)
        \o Serializer_k(label.utterance)

\* ------------------------------------------------------------------------
\* fallback/regex.rs: RegexQuestion and RegexFallback<AllQuestion>
\* ------------------------------------------------------------------------
LF == "\n"

\* RegexQuestion::parse_wildcard: the Hir of one pattern, byte by byte
parse_wildcard(pattern) ==
    [k \in 1..Len(pattern) |->
        IF pattern[k] = "*" THEN [hir |-> "Repetition", c |-> pattern[k]]
        ELSE IF pattern[k] = "?" THEN [hir |-> "Dot", c |-> pattern[k]]
        ELSE [hir |-> "Literal", c |-> pattern[k]]]

\* RegexQuestion::parse: the alternation of the patterns' Hirs; building a
\* regex of this size does not fail
RegexQuestion_parse(pats) ==
    Ok([k \in 1..Len(pats) |-> parse_wildcard(pats[k])])

\* a match of hir[i..] that begins at haystack[j]; it may end anywhere
RECURSIVE HirMatch(_, _, _, _)
HirMatch(hir, i, haystack, j) ==
    IF i > Len(hir) THEN TRUE
    ELSE IF hir[i].hir = "Repetition"
    THEN \E next \in j..(Len(haystack) + 1) :
            /\ \A k \in j..(next - 1) : haystack[k] # LF
            /\ HirMatch(hir, i + 1, haystack, next)
    ELSE /\ j <= Len(haystack)
         /\ IF hir[i].hir = "Dot" THEN haystack[j] # LF
            ELSE haystack[j] = hir[i].c
         /\ HirMatch(hir, i + 1, haystack, j + 1)

\* Regex::is_match(Input::new(haystack).anchored(Anchored::Yes)): some
\* alternative has a match that begins at the start of the haystack
is_match(alternation, haystack) ==
    \E k \in 1..Len(alternation) : HirMatch(alternation[k], 1, haystack, 1)

\* RegexQuestion::test
RegexQuestion_test(rx, label) == is_match(rx, Label_to_string(label))

\* RegexFallback::parse, for the result `inner` of T::parse(patterns) and
\* the result `rx` of RegexQuestion::parse(patterns)
RegexFallback_parse(inner, rx) ==
    IF inner.tag = "Panic" THEN Panic
    ELSE IF inner.tag = "Ok" THEN Ok([variant |-> "Ok", inner |-> inner.v])
    ELSE IF rx.tag = "Ok" THEN Ok([variant |-> "Regex", regex |-> rx.v])
    ELSE rx

\* RegexFallback::test
RegexFallback_test(fb, label) ==
    IF fb.variant = "Ok" THEN AllQuestion_test(fb.inner, label)
    ELSE RegexQuestion_test(fb.regex, label)

\* ------------------------------------------------------------------------
\* Inputs: question patterns and label texts
\* ------------------------------------------------------------------------
MaxPatterns == 5

\* the pattern of core text `core` at `position`, with the delimiters and
\* asterisks of the label format around it
Pat(position, core) ==
    (IF position = "P1" THEN << >> ELSE <<"*">>)
        \o reverse_hint[position][1] \o core \o reverse_hint[position][2]
        \o (IF position = "K3" THEN << >> ELSE <<"*">>)

Q == <<"?">>

\* "<n>?"
Decade(n) == IntStr(n) \o Q

PoolSigned ==
    {Pat("A1", <<"-", "?", "?">>), Pat("A1", <<"-", "?">>), Pat("A1", Q),
     Pat("A1", IntStr(10)), Pat("A1", IntStr(11)), Pat("A1", XX)}

PoolUnsigned ==
    {Pat("H2", Q), Pat("H2", Decade(1)), Pat("H2", Decade(2)),
     Pat("H2", IntStr(30)), Pat("H2", IntStr(31)), Pat("H2", IntStr(0))}

PoolGap ==
    {Pat("E1", IntStr(0)), Pat("E1", Q), Pat("E1", Decade(5)),
     Pat("E1", IntStr(12)), Pat("E1", Decade(1)), Pat("E1", XX)}

PoolWide ==
    {Pat("K3", IntStr(255)), Pat("K3", IntStr(254)), Pat("K3", Decade(25)),
     Pat("K3", IntStr(250)), Pat("K3", Decade(26))}

PoolSignedWide ==
    {Pat("A1", IntStr(127)), Pat("A1", IntStr(126)), Pat("A1", Decade(12)),
     Pat("A1", <<"-", "1", "?">>), Pat("A1", IntStr(-128))}

PoolMixed ==
    {Pat("A1", <<"-", "?", "?">>), Pat("A1", <<"-", "?">>), Pat("B1", IntStr(0)),
     Pat("G4", XX), <<"*", "/", "B", ":", "0", "+", "*">>}

PoolBooleanE ==
    {Pat("E5", <<"0">>), Pat("E5", <<"1">>), Pat("E5", XX),
     Pat("E3", <<"0">>), Pat("E3", <<"1">>), Pat("E3", <<"-", "1">>)}

PoolBooleanG ==
    {Pat("G5", <<"0">>), Pat("G5", <<"1">>), Pat("G3", <<"0">>),
     Pat("G3", <<"1">>), Pat("F3", <<"0">>), Pat("F3", <<"1">>)}

PoolPhone ==
    {Pat("P1", <<"a">>), Pat("P1", <<"A">>), Pat("P1", <<"b">>), Pat("P1", XX),
     Pat("P2", <<"o">>)}

PoolCategory ==
    {Pat("B1", IntStr(17)), Pat("B1", IntStr(20)), Pat("B1", XX),
     Pat("B1", Decade(1)), Pat("B1", <<"+", "1", "7">>)}

PoolAbsent ==
    {Pat("P5", XX), <<"*", "=", "x", "x", "/", "A", "*">>, Pat("P5", <<"a">>),
     Pat("B3", XX), <<"*", "_", "x", "x", "/", "C", "*">>}

PoolUndefined ==
    {Pat("G4", XX), Pat("E4", XX), Pat("F4", XX), Pat("G4", <<"1">>)}

Pools ==
    {PoolSigned, PoolUnsigned, PoolGap, PoolWide, PoolSignedWide, PoolMixed,
     PoolBooleanE, PoolBooleanG, PoolPhone, PoolCategory, PoolAbsent,
     PoolUndefined}

\* the label of the tests' `nones`: every field absent, utterance counts 254
Nones ==
    [p1 |-> XX, p2 |-> XX, p3 |-> XX, p4 |-> XX, p5 |-> XX,
     a1 |-> XX, a2 |-> XX, a3 |-> XX,
     b1 |-> XX, b2 |-> XX, b3 |-> XX,
     c1 |-> XX, c2 |-> XX, c3 |-> XX,
     d1 |-> XX, d2 |-> XX, d3 |-> XX,
     e1 |-> XX, e2 |-> XX, e3 |-> XX, e4 |-> XX, e5 |-> XX,
     f1 |-> XX, f2 |-> XX, f3 |-> XX, f4 |-> XX, f5 |-> XX, f6 |-> XX,
     f7 |-> XX, f8 |-> XX,
     g1 |-> XX, g2 |-> XX, g3 |-> XX, g4 |-> XX, g5 |-> XX,
     h1 |-> XX, h2 |-> XX,
     i1 |-> XX, i2 |-> XX, i3 |-> XX, i4 |-> XX, i5 |-> XX, i6 |-> XX,
     i7 |-> XX, i8 |-> XX,
     j1 |-> XX, j2 |-> XX,
     k1 |-> IntStr(254), k2 |-> IntStr(254), k3 |-> IntStr(254)]

Z == <<"0">>

\* the label of the tests' `zeros`: every field present and zero; the
\* pause-insertion fields are false, which the text writes as 1
Zeros ==
    [p1 |-> <<"z">>, p2 |-> <<"z">>, p3 |-> <<"z">>, p4 |-> <<"z">>,
     p5 |-> <<"z">>,
     a1 |-> Z, a2 |-> Z, a3 |-> Z,
     b1 |-> Z, b2 |-> Z, b3 |-> Z,
     c1 |-> Z, c2 |-> Z, c3 |-> Z,
     d1 |-> Z, d2 |-> Z, d3 |-> Z,
     e1 |-> Z, e2 |-> Z, e3 |-> Z, e4 |-> XX, e5 |-> <<"1">>,
     f1 |-> Z, f2 |-> Z, f3 |-> Z, f4 |-> XX, f5 |-> Z, f6 |-> Z,
     f7 |-> Z, f8 |-> Z,
     g1 |-> Z, g2 |-> Z, g3 |-> Z, g4 |-> XX, g5 |-> <<"1">>,
     h1 |-> Z, h2 |-> Z,
     i1 |-> Z, i2 |-> Z, i3 |-> Z, i4 |-> Z, i5 |-> Z, i6 |-> Z,
     i7 |-> Z, i8 |-> Z,
     j1 |-> Z, j2 |-> Z,
     k1 |-> Z, k2 |-> Z, k3 |-> Z]

\* the label of the tests' `query`: b^o-N+s=a/A:-6+2+8 ... /C:01_xx+xx ...
\* /K:3+6-10
Query ==
    [Nones EXCEPT !.p1 = <<"b">>, !.p2 = <<"o">>, !.p3 = <<"N">>,
                  !.p4 = <<"s">>, !.p5 = <<"a">>,
                  !.a1 = IntStr(-6), !.a2 = IntStr(2), !.a3 = IntStr(8),
                  !.c1 = <<"0", "1">>,
                  !.k1 = IntStr(3), !.k2 = IntStr(6), !.k3 = IntStr(10)]

\* the positions of each block of the label text
BlockPositions ==
    [P |-> PhonePosition, A |-> {"A1", "A2", "A3"}, B |-> {"B1", "B2", "B3"},
     C |-> {"C1", "C2", "C3"}, D |-> {"D1", "D2", "D3"},
     E |-> {"E1", "E2", "E3", "E4", "E5"},
     F |-> {"F1", "F2", "F3", "F4", "F5", "F6", "F7", "F8"},
     G |-> {"G1", "G2", "G3", "G4", "G5"}, H |-> {"H1", "H2"},
     I |-> {"I1", "I2", "I3", "I4", "I5", "I6", "I7", "I8"},
     J |-> {"J1", "J2"}, K |-> {"K1", "K2", "K3"}]

\* (block, token, text): each gives the label `zeros` with that one token
\* replaced
Variations ==
    {<<"A", "a1", IntStr(n)>> : n \in {-100, -50, -10, -9, -1, 10, 11, 12, 126, 127}}
        \cup {<<"H", "h2", IntStr(n)>> : n \in {1, 9, 10, 31, 32}}
        \cup {<<"E", "e1", IntStr(n)>> : n \in {1, 12, 19, 20, 50}}
        \cup {<<"K", "k3", IntStr(n)>> : n \in {4, 250, 254, 255}}
        \cup {<<"E", "e5", <<"0">>>>, <<"E", "e5", XX>>, <<"E", "e3", <<"1">>>>,
              <<"G", "g5", <<"0">>>>, <<"G", "g5", XX>>, <<"G", "g3", <<"1">>>>,
              <<"F", "f3", <<"1">>>>}
        \cup {<<"P", "p1", <<"a">>>>, <<"P", "p1", <<"A">>>>, <<"P", "p1", <<"b">>>>,
              <<"P", "p2", <<"o">>>>, <<"P", "p1", XX>>}
        \cup {<<"B", "b1", IntStr(17)>>, <<"B", "b1", IntStr(20)>>,
              <<"B", "b1", IntStr(18)>>, <<"B", "b1", XX>>,
              <<"C", "c1", <<"0", "1">>>>}

\* the label texts a question about `position` is tested against: nones,
\* zeros, and zeros varied within the block of the position
WireLabels(position) ==
    {Nones, Zeros, Query}
        \cup {[Zeros EXCEPT ![x[2]] = x[3]] :
                x \in {y \in Variations : position \in BlockPositions[y[1]]}}

\* every label text of the tests
AllWires == UNION {WireLabels(position) : position \in AllPosition}

\* the label each text parses to
ParsedLabels == [w \in AllWires |-> Label_parse(w)]

\* ------------------------------------------------------------------------
\* The state machine: a caller builds a pattern list, parses it into a
\* question, and tests the question against a label
\* ------------------------------------------------------------------------
Init ==
    /\ debug \in BOOLEAN
    /\ pool \in Pools
    /\ patterns = << >>
    /\ pc = "input"
    /\ question = [tag |-> "None"]
    /\ fallback = [tag |-> "None"]
    /\ regex = [tag |-> "None"]
    /\ wire = Nones
    /\ text = << >>
    /\ result = FALSE

\* the caller adds one more pattern of the entry to the list
Push(p) ==
    /\ pc = "input"
    /\ Len(patterns) < MaxPatterns
    /\ \A i \in 1..Len(patterns) : patterns[i] # p
    /\ patterns' = Append(patterns, p)
    /\ UNCHANGED <<debug, pool, pc, question, fallback, wire, result, regex, text>>

\* AllQuestion::parse(&patterns)
Parse ==
    /\ pc = "input"
    /\ question' = AllQuestion_parse(patterns)
    /\ pc' = IF question'.tag = "Panic" THEN "panicked" ELSE "parsed"
    /\ UNCHANGED <<debug, pool, patterns, fallback, wire, result, regex, text>>

\* question.test(&label_text.parse()?)
TestLabel(w, label) ==
    /\ label.tag = "Ok"
    /\ wire' = w
    /\ result' = AllQuestion_test(question.v, label.v)

Test(w) ==
    /\ pc = "parsed"
    /\ question.tag = "Ok"
    /\ w \in WireLabels(question.v.position)
    /\ TestLabel(w, ParsedLabels[w])
    /\ pc' = "tested"
    /\ UNCHANGED <<debug, pool, patterns, question, fallback, regex, text>>

\* NoOpFallback::<AllQuestion>::parse(&patterns); `question` keeps what the
\* AllQuestion::parse it calls returned
ParseFallback ==
    /\ pc = "input"
    /\ question' = AllQuestion_parse(patterns)
    /\ fallback' = NoOpFallback_parse(question')
    /\ pc' = IF fallback'.tag = "Panic" THEN "panicked" ELSE "fb_parsed"
    /\ UNCHANGED <<debug, pool, patterns, wire, result, regex, text>>

\* fallback.test(&label_text.parse()?)
TestFallbackLabel(w, label) ==
    /\ label.tag = "Ok"
    /\ wire' = w
    /\ result' = NoOpFallback_test(fallback.v, label.v)

TestFallback(w) ==
    /\ pc = "fb_parsed"
    /\ w \in (IF question.tag = "Ok" THEN WireLabels(question.v.position)
              ELSE {Nones, Zeros})
    /\ TestFallbackLabel(w, ParsedLabels[w])
    /\ pc' = "fb_tested"
    /\ UNCHANGED <<debug, pool, patterns, question, fallback, regex, text>>

Next ==
    \/ \E p \in pool : Push(p)
    \/ Parse
    \/ \E w \in AllWires : Test(w)
    \/ ParseFallback
    \/ \E w \in AllWires : TestFallback(w)

Spec == Init /\ [][Next]_vars

\* ------------------------------------------------------------------------
\* Single patterns: every position's pattern with and without its
\* asterisks, and patterns whose core text holds a delimiter or a sign
\* ------------------------------------------------------------------------
StarCores == {<<"1">>, XX, <<"a", "?">>}

\* the pattern without its leading / trailing asterisk
NoLead(p) == IF Head(p) = "*" THEN Tail(p) ELSE p

NoTrail(p) == IF p[Len(p)] = "*" THEN SubSeq(p, 1, Len(p) - 1) ELSE p

PoolStars ==
    UNION {{Pat(position, core), NoLead(Pat(position, core)),
            NoTrail(Pat(position, core))} :
              position \in AllPosition, core \in StarCores}

PoolCores ==
    {Pat("P2", <<"o", "-", "N">>), Pat("P3", <<"N", "+", "s">>),
     Pat("P2", <<"o">>) , Pat("A1", <<"+", "3">>), Pat("A1", <<"-", "3">>),
     Pat("A1", <<"1", "+", "2">>), Pat("A2", <<"1", "+", "2">>),
     Pat("B1", <<"+", "1", "7">>), Pat("B1", <<"-", "5">>),
     Pat("B2", <<"1", "_", "2">>), Pat("H2", <<"-", "5">>),
     Pat("H2", <<"+", "5">>), Pat("K3", <<"-", "5">>), Pat("K2", <<"-", "5">>),
     Pat("E3", <<"-", "1">>), Pat("E5", <<"-", "1">>), Pat("G4", <<"x", "_", "x">>),
     Pat("I2", <<"1", "@", "2">>), Pat("F5", <<"-", "1">>),
     <<"*", "/", "A", ":", "0", "/", "B", ":", "*">>,
     <<"*", "^", "o", "-", "N", "+", "*">>,
     <<"*", "-", "1", "/", "H", ":", "*">>, <<"*">>, <<":", "*">>}

\* patterns with a truncated or missing delimiter, with text around the
\* delimiters, with an empty core, and patterns that two rules match
PoolTolerant ==
    {<<"*", "#", "1", "*">>, <<"*", "%", "1", "*">>,
     <<"*", "_", "0", "1", "/", "C", "*">>, <<"*", "-", "1", "/", "*">>,
     <<"*", "/", "A", ":", "5">>, <<"*", "^", "a">>,
     <<"*", "^", "a", "=", "*">>, <<"*", "!", "1", "#", "*">>,
     <<"*", "#", "1", "/", "F", ":", "*">>, <<"*", "/", "A", ":", "1", "/", "B", "*">>,
     <<"*", "/", "A", ":", "*">>, << >>, <<"*", "-">>, <<"*", "^", "*">>,
     <<"*", "^", "-", "*">>, <<"*", "/", "A", ":", "/", "B", ":", "*">>,
     <<"*", "/", "A", ":", "+", "*">>,
     <<"*", "x", "/", "A", ":", "1", "+", "*">>,
     <<"*", ":", "1", "+", "*">>, <<"*", "A", ":", "1", "+", "*">>,
     <<"*", "_", "0", "/", "Z", ":", "*">>, <<"*", "/", "B", ":", "0", "+", "*">>,
     <<"*", "/", "B", " ", ":", "0", "+", "*">>}

PoolEstimate == PoolStars \cup PoolCores \cup PoolTolerant

InitEstimate ==
    /\ debug \in BOOLEAN
    /\ pool = PoolEstimate
    /\ patterns = << >>
    /\ pc = "input"
    /\ question = [tag |-> "None"]
    /\ fallback = [tag |-> "None"]
    /\ regex = [tag |-> "None"]
    /\ wire = Nones
    /\ text = << >>
    /\ result = FALSE

\* the caller hands over a list of one pattern
PushOne(p) == patterns = << >> /\ Push(p)

NextEstimate ==
    \/ \E p \in pool : PushOne(p)
    \/ Parse

SpecEstimate == InitEstimate /\ [][NextEstimate]_vars

\* ------------------------------------------------------------------------
\* Regex matching: the caller compiles a list both ways and tests a label
\* ------------------------------------------------------------------------
MaxRegexPatterns == 2

\* phoneme patterns, with and without asterisks (fallback/regex.rs tests)
PoolRegexPhone ==
    {Pat("P1", <<"b">>), Pat("P2", <<"o">>), <<"b", "^", "o">>,
     <<"^", "o", "-", "N", "+", "*">>, <<"*", "^", "o", "-", "N", "+", "*">>,
     <<"I", "N", "V", "A", "L", "I", "D", "?", "*">>}

\* patterns of the last field, and numeric patterns
PoolRegexNumeric ==
    {Pat("K3", IntStr(6)), Pat("K3", IntStr(10)), Pat("E1", Q),
     Pat("C1", <<"1">>), Pat("C1", <<"0", "1">>), Pat("A1", <<"-", "?">>)}

PoolRegexBoolean ==
    {Pat("E5", <<"1">>), Pat("E5", Z), Pat("G5", <<"1">>), Pat("E3", <<"1">>),
     Pat("F3", <<"1">>), Pat("G3", <<"1">>)}

PoolsRegex == {PoolRegexPhone, PoolRegexNumeric, PoolRegexBoolean}

InitRegex ==
    /\ debug \in BOOLEAN
    /\ pool \in PoolsRegex
    /\ patterns = << >>
    /\ pc = "input"
    /\ question = [tag |-> "None"]
    /\ fallback = [tag |-> "None"]
    /\ regex = [tag |-> "None"]
    /\ wire = Nones
    /\ text = << >>
    /\ result = FALSE

PushRegex(p) == Len(patterns) < MaxRegexPatterns /\ Push(p)

\* AllQuestion::parse, RegexQuestion::parse and
\* RegexFallback::<AllQuestion>::parse of the same list
ParseRegex ==
    /\ pc = "input"
    /\ question' = AllQuestion_parse(patterns)
    /\ regex' = RegexQuestion_parse(patterns)
    /\ fallback' = RegexFallback_parse(question', regex')
    /\ pc' = IF fallback'.tag = "Panic" THEN "panicked" ELSE "rx_parsed"
    /\ UNCHANGED <<debug, pool, patterns, wire, text, result>>

\* the label texts the compiled list is tested against
RegexWires ==
    IF question.tag = "Ok" THEN WireLabels(question.v.position)
    ELSE {Nones, Zeros, Query}

\* regex.test(&label_text.parse()?)
TestRegexQuestionLabel(w, label) ==
    /\ label.tag = "Ok"
    /\ wire' = w
    /\ text' = Label_to_string(label.v)
    /\ result' = RegexQuestion_test(regex.v, label.v)

TestRegexQuestion(w) ==
    /\ pc = "rx_parsed"
    /\ w \in RegexWires
    /\ TestRegexQuestionLabel(w, ParsedLabels[w])
    /\ pc' = "rx_tested"
    /\ UNCHANGED <<debug, pool, patterns, question, fallback, regex>>

\* fallback.test(&label_text.parse()?)
TestRegexFallbackLabel(w, label) ==
    /\ label.tag = "Ok"
    /\ wire' = w
    /\ text' = Label_to_string(label.v)
    /\ result' = RegexFallback_test(fallback.v, label.v)

TestRegexFallback(w) ==
    /\ pc = "rx_parsed"
    /\ w \in RegexWires
    /\ TestRegexFallbackLabel(w, ParsedLabels[w])
    /\ pc' = "rf_tested"
    /\ UNCHANGED <<debug, pool, patterns, question, fallback, regex>>

NextRegex ==
    \/ \E p \in pool : PushRegex(p)
    \/ ParseRegex
    \/ \E w \in AllWires : TestRegexQuestion(w)
    \/ \E w \in AllWires : TestRegexFallback(w)

SpecRegex == InitRegex /\ [][NextRegex]_vars

TypeOK ==
    /\ debug \in BOOLEAN
    /\ pc \in {"input", "parsed", "panicked", "tested", "fb_parsed", "fb_tested",
              "rx_parsed", "rx_tested", "rf_tested"}
    /\ question.tag \in {"None", "Ok", "Err", "Panic"}
    /\ fallback.tag \in {"None", "Ok", "Panic"}
    /\ regex.tag \in {"None", "Ok"}
    /\ result \in BOOLEAN

\* ------------------------------------------------------------------------
\* Properties
\* ------------------------------------------------------------------------
\* estimate_position of every pattern of the pools
Estimated ==
    [p \in (UNION Pools) \cup PoolEstimate \cup UNION PoolsRegex |->
        estimate_position(p)]

\* estimate_position of every pattern of the list
Resolved == [i \in 1..Len(patterns) |-> Estimated[patterns[i]]]

AllResolve == \A i \in 1..Len(patterns) : Resolved[i].ok

\* the core texts of a list whose patterns all resolve
Cores == [i \in 1..Len(patterns) |-> Resolved[i].range]

\* a list of one pattern, which resolves
Single == Len(patterns) = 1 /\ Resolved[1].ok

\* the label tested, and the value it has at the question's position
TestedTarget == Position_get(question.v.position, ParsedLabels[wire].v)

SeqMember(x, seq) == \E i \in 1..Len(seq) : seq[i] = x

\* membership / interval containment / equality, by the kind of the question
KindTest(q, t) ==
    CASE q.kind \in {"Phone", "Category"} -> SeqMember(t, q.range.v)
      [] q.kind \in {"SignedRange", "UnsignedRange"} ->
            q.range.v.start <= t /\ t < q.range.v.end
      [] q.kind = "Boolean" -> (q.range.v <=> t)
      [] q.kind = "Undefined" -> TRUE

\* C1: Question::test is the kind-specific test when range and target are
\* both present, true when the range is None and the target absent, and
\* false in both mixed cases.
C1_TestCases ==
    pc = "tested" =>
        LET q == question.v
            target == TestedTarget
        IN  /\ (q.range.some /\ target.some) => (result <=> KindTest(q, target.v))
            /\ (~q.range.some /\ ~target.some) => result
            /\ (q.range.some # target.some) => ~result

\* a question compiled from xx met a label that has the field
C1_Witness ==
    /\ pc = "tested"
    /\ ~question.v.range.some
    /\ TestedTarget.some
    /\ ~result

\* C2: on patterns that each resolve, AllQuestion::parse returns
\* PositionMismatch whenever some pattern's position differs from the
\* first's, and a question it returns has the common position.
C2_PositionMismatch ==
    (pc # "input" /\ patterns # << >> /\ AllResolve) =>
        /\ (\E i \in 1..Len(patterns) : Resolved[i].position # Resolved[1].position)
              => question = Err("PositionMismatch", << >>)
        /\ question.tag = "Ok" =>
              /\ \A i \in 1..Len(patterns) : Resolved[i].position = Resolved[1].position
              /\ question.v.position = Resolved[1].position

\* the first two patterns agree and the third points elsewhere
C2_Witness ==
    /\ pc = "parsed"
    /\ Len(patterns) = 3
    /\ AllResolve
    /\ Resolved[2].position = Resolved[1].position
    /\ Resolved[3].position # Resolved[1].position
    /\ question = Err("PositionMismatch", << >>)

\* ------------------------------------------------------------------------
\* Numeric questions
\* ------------------------------------------------------------------------
SamePosition ==
    \A i \in 1..Len(patterns) : Resolved[i].position = Resolved[1].position

\* a parsed, non-empty list of patterns of one numeric position
NumericList ==
    /\ pc # "input"
    /\ patterns # << >>
    /\ AllResolve
    /\ SamePosition
    /\ KindOf(Resolved[1].position) \in {"SignedRange", "UnsignedRange"}

\* a parsed list of one pattern of a numeric position
NumericSingle == NumericList /\ Len(patterns) = 1

IsSigned == KindOf(Resolved[1].position) = "SignedRange"

\* the primitive interval of every core text of the list
Primitives ==
    [i \in 1..Len(patterns) |->
        IF IsSigned THEN range_i8(Cores[i]) ELSE range_u8(Cores[i])]

Intervals == [i \in 1..Len(patterns) |-> Primitives[i].v]

MinStart ==
    CHOOSE m \in {Intervals[i].start : i \in 1..Len(patterns)} :
        \A i \in 1..Len(patterns) : m <= Intervals[i].start

MaxEnd ==
    CHOOSE m \in {Intervals[i].end : i \in 1..Len(patterns)} :
        \A i \in 1..Len(patterns) : m >= Intervals[i].end

\* interval j comes before interval i when the intervals are sorted by start
\* (equal starts by end, for an order that is none of the patterns')
Before(j, i) ==
    \/ Intervals[j].start < Intervals[i].start
    \/ /\ Intervals[j].start = Intervals[i].start
       /\ \/ Intervals[j].end < Intervals[i].end
          \/ Intervals[j].end = Intervals[i].end /\ j < i

\* the sorted intervals leave no gap: every interval but the first starts
\* at or before the end of the union of those before it
NoGap ==
    \A i \in 1..Len(patterns) :
        \/ \A j \in 1..Len(patterns) : ~Before(j, i)
        \/ \E j \in 1..Len(patterns) :
              Before(j, i) /\ Intervals[i].start <= Intervals[j].end

\* the list with the patterns at i and i + 1 exchanged
Swap(i) ==
    [k \in 1..Len(patterns) |->
        IF k = i THEN patterns[i + 1]
        ELSE IF k = i + 1 THEN patterns[i]
        ELSE patterns[k]]

\* the text is the decimal digits of a natural number, as Display writes it
IsLiteral(core) ==
    /\ core # << >>
    /\ \A k \in 1..Len(core) : IsDigit(core[k])
    /\ core = NatStr(DecVal(core))

\* the text is the digits of a natural number and one trailing '?'
IsDecade(core) ==
    /\ Len(core) >= 2
    /\ core[Len(core)] = "?"
    /\ IsLiteral(SubSeq(core, 1, Len(core) - 1))

DecadeOf(core) == DecVal(SubSeq(core, 1, Len(core) - 1))

\* the text of the label tested, at a numeric position of the pools
WireAt(position) ==
    CASE position = "A1" -> wire.a1
      [] position = "E1" -> wire.e1
      [] position = "H2" -> wire.h2
      [] position = "K3" -> wire.k3
      [] position = "E3" -> wire.e3
      [] position = "E5" -> wire.e5
      [] position = "F3" -> wire.f3
      [] position = "G3" -> wire.g3
      [] position = "G5" -> wire.g5
      [] OTHER -> << >>

\* C3: numeric range compilation of a non-empty collection of primitive
\* intervals, in any order: when the intervals leave no gap it succeeds with
\* the union [min start, max end), when they leave a gap it fails with
\* IncontinuousRange, and the outcome is the same for every order of the
\* patterns.
C3_UnionOrGap ==
    (NumericList /\ \A i \in 1..Len(patterns) : Primitives[i].tag = "Ok") =>
        /\ IF NoGap
           THEN /\ question.tag = "Ok"
                /\ question.v.range = Some(Rng(MinStart, MaxEnd))
           ELSE question = Err("IncontinuousRange", << >>)
        /\ \A i \in 1..(Len(patterns) - 1) :
              AllQuestion_parse(Swap(i)) = question

\* C4: at an unsigned-range position the single literal N, 0 <= N <= 255,
\* compiles to [N, N+1), and the question tests true exactly for the labels
\* whose field is present and equal to N.
C4_LiteralSingleton ==
    (/\ NumericSingle
     /\ ~IsSigned
     /\ IsLiteral(Cores[1])
     /\ DecVal(Cores[1]) <= U8_MAX) =>
        /\ question.tag = "Ok"
        /\ question.v.range = Some(Rng(DecVal(Cores[1]), DecVal(Cores[1]) + 1))
        /\ pc = "tested" =>
              (result <=> (TestedTarget.some /\ TestedTarget.v = DecVal(Cores[1])))

\* C5: at a numeric position the digits of a natural number N followed by
\* one '?' compile to [N*10, N*10+10).
C5_DecadeWildcard ==
    (NumericSingle /\ IsDecade(Cores[1])) =>
        /\ question.tag = "Ok"
        /\ question.v.range =
              Some(Rng(DecadeOf(Cores[1]) * 10, DecadeOf(Cores[1]) * 10 + 10))

Denoted(core) ==
    IF core = Q THEN 1..9
    ELSE IF IsDecade(core) /\ DecadeOf(core) >= 1
    THEN (DecadeOf(core) * 10)..(DecadeOf(core) * 10 + 9)
    ELSE IF IsLiteral(core) /\ DecVal(core) >= 10 THEN {DecVal(core)}
    ELSE {}

DenotedAll == UNION {Denoted(Cores[i]) : i \in 1..Len(patterns)}

LeqN == LET all == DenotedAll IN CHOOSE n \in all : \A m \in all : m <= n

\* the list is a '<=n' question: "?" with decades and literals that
\* together stand for 1..n
IsLeq ==
    /\ SeqMember(Q, Cores)
    /\ \A i \in 1..Len(patterns) : Denoted(Cores[i]) # {}
    /\ DenotedAll = 1..LeqN

I8 == I8_MIN..I8_MAX

\* C8, as the specification states it: at A1 "-?" contains exactly -9..0,
\* zero included, and "-??" exactly -99..-10.
C8_NegativeBandsClosed ==
    (NumericSingle /\ IsSigned) =>
        /\ Cores[1] = <<"-", "?">> =>
              /\ question.tag = "Ok"
              /\ \A t \in I8 : contains(question.v.range.v, t) <=> t \in -9..0
        /\ Cores[1] = <<"-", "?", "?">> =>
              /\ question.tag = "Ok"
              /\ \A t \in I8 : contains(question.v.range.v, t) <=> t \in -99..-10

\* C8: at A1 "-?" compiles to [-9,0), which contains exactly -9..-1 and not
\* zero, and "-??" to [-99,-9), which contains exactly -99..-10.
C8_NegativeBands ==
    (NumericSingle /\ IsSigned) =>
        /\ Cores[1] = <<"-", "?">> =>
              /\ question.tag = "Ok"
              /\ question.v.range = Some(Rng(-9, 0))
              /\ \A t \in I8 : contains(question.v.range.v, t) <=> t \in -9..-1
              /\ (pc = "tested" /\ TestedTarget.some) =>
                    (result <=> TestedTarget.v \in -9..-1)
        /\ Cores[1] = <<"-", "?", "?">> =>
              /\ question.tag = "Ok"
              /\ question.v.range = Some(Rng(-99, -9))
              /\ \A t \in I8 : contains(question.v.range.v, t) <=> t \in -99..-10
              /\ (pc = "tested" /\ TestedTarget.some) =>
                    (result <=> TestedTarget.v \in -99..-10)

\* "-?" alone met a label whose A1 is 0
C8_Witness ==
    /\ pc = "tested"
    /\ NumericSingle
    /\ IsSigned
    /\ Cores[1] = <<"-", "?">>
    /\ TestedTarget = Some(0)
    /\ ~result

\* the five A1 patterns of the signed bands, in some order
IsSignedBands ==
    /\ Len(patterns) = 5
    /\ {patterns[i] : i \in 1..5} =
          {Pat("A1", <<"-", "?", "?">>), Pat("A1", <<"-", "?">>), Pat("A1", Q),
           Pat("A1", IntStr(10)), Pat("A1", IntStr(11))}

BooleanSingle ==
    /\ pc # "input"
    /\ Single
    /\ KindOf(Resolved[1].position) = "Boolean"
    /\ Cores[1] \in {<<"0">>, <<"1">>}

\* C10: at the pause-insertion positions E5 and G5 "0" compiles to true and
\* "1" to false, at E3, F3 and G3 "0" compiles to false and "1" to true; so
\* a question written with "1" at E5 or G5 tests true exactly for the labels
\* whose text at that field is "1".
C10_BooleanPolarity ==
    BooleanSingle =>
        /\ question.tag = "Ok"
        /\ question.v.range =
              Some(IF Resolved[1].position \in {"E5", "G5"}
                   THEN Cores[1] = <<"0">>
                   ELSE Cores[1] = <<"1">>)
        /\ (/\ pc = "tested"
            /\ Resolved[1].position \in {"E5", "G5"}
            /\ Cores[1] = <<"1">>) =>
              (result <=> WireAt(Resolved[1].position) = <<"1">>)

\* ------------------------------------------------------------------------
\* Boolean, Category and Undefined questions
\* ------------------------------------------------------------------------
\* a parsed, non-empty list of patterns of one position of the kind, other
\* than the single "xx"
KindList(kind) ==
    /\ pc # "input"
    /\ patterns # << >>
    /\ AllResolve
    /\ SamePosition
    /\ KindOf(Resolved[1].position) = kind
    /\ Cores # <<XX>>

Contains(core, c) == \E k \in 1..Len(core) : core[k] = c

\* C11: a Boolean question compiles only from exactly one core text that is
\* "0" or "1"; every other list (another text, or more than one core text)
\* is rejected with InvalidBoolean carrying an offending text, and is never
\* compiled from its first pattern alone.
C11_BooleanSingleCore ==
    KindList("Boolean") =>
        IF Len(patterns) = 1 /\ Cores[1] \in {<<"0">>, <<"1">>}
        THEN question.tag = "Ok"
        ELSE /\ question.tag = "Err"
             /\ question.err = "InvalidBoolean"
             /\ SeqMember(question.detail, Cores)

\* a non-negative integer literal: decimal digits, which the integer parser
\* also takes with a leading '+'
IsNonNegLiteral(core) ==
    LET digits == IF core # << >> /\ core[1] = "+" THEN Tail(core) ELSE core
    IN  digits # << >> /\ \A k \in 1..Len(digits) : IsDigit(digits[k])

LiteralVal(core) == DecVal(IF core[1] = "+" THEN Tail(core) ELSE core)

C13_UndefinedAlwaysTrue ==
    (pc = "tested" /\ question.v.kind = "Undefined") => result

\* C14: at an Undefined-kind position parse fails whenever some pattern's
\* core text is not "xx".
C14_UndefinedOnlyXX ==
    (/\ pc # "input"
     /\ patterns # << >>
     /\ AllResolve
     /\ SamePosition
     /\ KindOf(Resolved[1].position) = "Undefined"
     /\ \E i \in 1..Len(patterns) : Cores[i] # XX) =>
        question.tag = "Err"

C16_StarInvariant ==
    (pc # "input" /\ Len(patterns) = 1) =>
        \A position \in AllPosition, core \in StarCores :
            /\ (position # "P1" /\ patterns[1] = NoLead(Pat(position, core))) =>
                  question = Err("InvalidPosition", <<"MissingPrefixAsterisk">>)
            /\ (position # "K3" /\ patterns[1] = NoTrail(Pat(position, core))) =>
                  question = Err("InvalidPosition", <<"MissingSuffixAsterisk">>)

\* "/B:1-*", the B1 pattern without its leading asterisk, was rejected
C16_Witness ==
    /\ pc = "parsed"
    /\ patterns = <<NoLead(Pat("B1", <<"1">>))>>
    /\ question = Err("InvalidPosition", <<"MissingPrefixAsterisk">>)

Delims == PrefixDelims \cup SuffixDelims

\* C17: when parse succeeds, the core text of an accepted pattern lies in
\* one field: it holds no field-delimiter byte, other than a leading minus
\* sign at A1; a pattern that spans two or more fields is rejected.
C17_SingleField ==
    (pc # "input" /\ Len(patterns) = 1 /\ question.tag = "Ok") =>
        \A k \in 1..Len(Estimated[patterns[1]].range) :
            Estimated[patterns[1]].range[k] \in Delims =>
                /\ k = 1
                /\ Estimated[patterns[1]].range[k] = "-"
                /\ question.v.position = "A1"

\* C18: at a numeric position other than A1 (unsigned range, category,
\* Boolean) a list with a core text that contains '-' makes parse fail: a
\* minus sign is accepted at A1 only.
C18_MinusOnlyA1 ==
    (/\ pc # "input"
     /\ patterns # << >>
     /\ AllResolve
     /\ SamePosition
     /\ KindOf(Resolved[1].position) \in {"UnsignedRange", "Category", "Boolean"}
     /\ \E i \in 1..Len(patterns) : Contains(Cores[i], "-")) =>
        question.tag = "Err"

\* the k-th phoneme field of the label text p1^p2-p3+p4=p5
WirePhone(position) ==
    CASE position = "P1" -> wire.p1
      [] position = "P2" -> wire.p2
      [] position = "P3" -> wire.p3
      [] position = "P4" -> wire.p4
      [] position = "P5" -> wire.p5

\* C19: a phoneme question of position Pk is evaluated against the k-th
\* phoneme field of the label text: it tests true exactly when that field is
\* one of the question's core texts ("b^*" and "*^o-*" are true for a label
\* that starts with "b^o-"; "a^*","A^*" are true for a first field "a" or
\* "A" and false for "b").
C19_PhoneField ==
    (pc = "tested" /\ question.v.kind = "Phone") =>
        (result <=>
            IF question.v.range.some
            THEN /\ WirePhone(question.v.position) # XX
                 /\ SeqMember(WirePhone(question.v.position), question.v.range.v)
            ELSE WirePhone(question.v.position) = XX)

\* C20: NoOpFallback::parse returns Ok for every pattern list, the empty one
\* included: NoOp, whose test is false for every label, when the wrapped
\* parse fails, and otherwise a matcher whose test is the wrapped matcher's.
C20_FallbackTotal ==
    fallback.tag # "None" =>
        /\ fallback.tag = "Ok"
        /\ question.tag \in {"Ok", "Err"}
        /\ question.tag = "Err" =>
              /\ fallback.v.variant = "NoOp"
              /\ pc = "fb_tested" => ~result
        /\ question.tag = "Ok" =>
              /\ fallback.v = [variant |-> "Ok", inner |-> question.v]
              /\ pc = "fb_tested" =>
                    (result <=> AllQuestion_test(question.v, ParsedLabels[wire].v))

\* ------------------------------------------------------------------------
\* Regex matching and the label text
\* ------------------------------------------------------------------------
\* the whole of text[j..] matches pattern[i..]: '*' stands for any run of
\* non-newline bytes, '?' for one non-newline byte, another byte for itself
RECURSIVE WildcardMatch(_, _, _, _)
WildcardMatch(pattern, i, s, j) ==
    IF i > Len(pattern) THEN j > Len(s)
    ELSE IF pattern[i] = "*"
    THEN \E next \in j..(Len(s) + 1) :
            /\ \A k \in j..(next - 1) : s[k] # LF
            /\ WildcardMatch(pattern, i + 1, s, next)
    ELSE /\ j <= Len(s)
         /\ IF pattern[i] = "?" THEN s[j] # LF ELSE s[j] = pattern[i]
         /\ WildcardMatch(pattern, i + 1, s, j + 1)

\* C21: RegexQuestion, and RegexFallback when the structured parse failed,
\* tests true exactly when the whole serialized label text matches one of
\* the patterns; a pattern that matches a proper prefix of the text only
\* does not make the test true.
C21_WholeTextMatch ==
    (pc = "rx_tested" \/ (pc = "rf_tested" /\ question.tag = "Err")) =>
        (result <=>
            \E k \in 1..Len(patterns) : WildcardMatch(patterns[k], 1, text, 1))

\* the block of `text` that starts with "/<letter>:", up to the next block
TextBlock(letter) ==
    LET from == CHOOSE i \in 1..Len(text) : SubSeq(text, i, i + 2) = Blk(letter)
        to == CHOOSE k \in (from + 1)..(Len(text) + 1) :
                /\ k = Len(text) + 1 \/ text[k] = "/"
                /\ \A m \in (from + 1)..(k - 1) : text[m] # "/"
    IN  SubSeq(text, from, to - 1)

\* the blocks E, F and G of the label text the tokens of `wire` stand for
WireBlockE ==
    Blk("E") \o wire.e1 \o <<"_">> \o wire.e2 \o <<"!">> \o wire.e3 \o <<"_">>
        \o wire.e4 \o <<"-">> \o wire.e5

WireBlockF ==
    Blk("F") \o wire.f1 \o <<"_">> \o wire.f2 \o <<"#">> \o wire.f3 \o <<"_">>
        \o wire.f4 \o <<"@">> \o wire.f5 \o <<"_">> \o wire.f6 \o <<"|">>
        \o wire.f7 \o <<"_">> \o wire.f8

WireBlockG ==
    Blk("G") \o wire.g1 \o <<"_">> \o wire.g2 \o <<"%">> \o wire.g3 \o <<"_">>
        \o wire.g4 \o <<"_">> \o wire.g5

\* the flag a "0"/"1" token stands for when it is read directly
Direct(token) == token = <<"1">>

\* C22: the label text inverts the pause-insertion fields only: "1" at E5 or
\* G5 parses to is_pause_insertion = false and "0" to true, E3, F3 and G3
\* parse "0"/"1" directly to false/true, and the serialized label carries
\* in its blocks E, F and G the digits of the text it was parsed from.
C22_PauseInsertionInverted ==
    pc \in {"rx_tested", "rf_tested"} =>
        /\ ParsedLabels[wire].v.accent_phrase_prev.some =>
              /\ ParsedLabels[wire].v.accent_phrase_prev.v.is_interrogative
                    = Direct(wire.e3)
              /\ ParsedLabels[wire].v.accent_phrase_prev.v.is_pause_insertion
                    = (IF wire.e5 = XX THEN None ELSE Some(~Direct(wire.e5)))
        /\ ParsedLabels[wire].v.accent_phrase_next.some =>
              /\ ParsedLabels[wire].v.accent_phrase_next.v.is_interrogative
                    = Direct(wire.g3)
              /\ ParsedLabels[wire].v.accent_phrase_next.v.is_pause_insertion
                    = (IF wire.g5 = XX THEN None ELSE Some(~Direct(wire.g5)))
        /\ ParsedLabels[wire].v.accent_phrase_curr.some =>
              ParsedLabels[wire].v.accent_phrase_curr.v.is_interrogative
                    = Direct(wire.f3)
        /\ TextBlock("E") = WireBlockE
        /\ TextBlock("F") = WireBlockF
        /\ TextBlock("G") = WireBlockG

\* a label whose text has "0" at E5 was parsed to is_pause_insertion = true
\* and serialized
C22_Witness ==
    /\ pc = "rx_tested"
    /\ wire.e5 = Z
    /\ wire.e3 = Z
    /\ ParsedLabels[wire].v.accent_phrase_prev.v.is_pause_insertion = Some(TRUE)
    /\ TextBlock("E") = WireBlockE

\* C30: for every list that AllQuestion::parse accepts and every parsed
\* label, the test of the structured question equals the test of the
\* RegexQuestion compiled from the same list.
C30_StructuredEqualsRegex ==
    (pc = "rx_tested" /\ question.tag = "Ok") =>
        (result <=> AllQuestion_test(question.v, ParsedLabels[wire].v))

\* ------------------------------------------------------------------------
\* Position resolution of one pattern
\* ------------------------------------------------------------------------
\* the steps of estimate_position before its checks, for every pattern of
\* the single-pattern pool
Cuts ==
    [p \in PoolEstimate |->
        LET t == trim_asterisk(p)
            marks == find_delim_marks(t.pattern)
        IN  [pattern |-> t.pattern, stars |-> t.stars,
             prefix |-> marks[1], suffix |-> marks[2],
             m |-> match_position(t.pattern, marks[1], marks[2], t.stars)]]

\* a parsed list of one pattern
One == pc # "input" /\ Len(patterns) = 1

Cut == Cuts[patterns[1]]

InvalidPosition(kind) == Err("InvalidPosition", <<kind>>)

\* what each rule finds for the pattern
Rule1 == IF Cut.prefix.some THEN multi_forward(Cut.pattern, Cut.prefix.v) ELSE None
Rule2 ==
    IF Cut.prefix.some THEN single_forward(Cut.pattern[Cut.prefix.v + 1]) ELSE None
Rule3 == IF Cut.suffix.some THEN multi_reverse(Cut.pattern, Cut.suffix.v) ELSE None
Rule4 ==
    IF Cut.suffix.some THEN single_reverse(Cut.pattern[Cut.suffix.v + 1]) ELSE None
Rule5 ==
    IF Cut.prefix.some /\ Cut.suffix.some
    THEN combination_match(Cut.pattern[Cut.prefix.v + 1],
                           Cut.pattern[Cut.suffix.v + 1])
    ELSE None

\* empty suffix and no trailing star
Terminal == ~Cut.suffix.some /\ ~Cut.stars[2]

\* the first rule of 1..5 that finds something
FirstRule ==
    IF Rule1.some THEN Rule1
    ELSE IF Rule2.some THEN Rule2
    ELSE IF Rule3.some THEN Rule3
    ELSE IF Rule4.some THEN Rule4
    ELSE Rule5

\* C23 as stated: the rules are tried in the order multi-byte forward,
\* single-byte forward, multi-byte backward, single-byte backward,
\* combination table, and only then the terminal-field rule (K3);
\* NoMatchingPosition if none applies.
C23_TerminalRuleLast ==
    One =>
        Cut.m = (IF FirstRule.some THEN [ok |-> TRUE, position |-> FirstRule.v]
                 ELSE IF Terminal THEN [ok |-> TRUE, position |-> "K3"]
                 ELSE [ok |-> FALSE, err |-> "NoMatchingPosition"])

\* C23: the terminal-field rule comes first and is unconditional: a pattern
\* with an empty suffix and no trailing star is resolved to K3 whatever its
\* prefix; otherwise rules 1 to 5 are tried in their order, and the result
\* is NoMatchingPosition if none applies.
C23_TerminalRuleFirst ==
    One =>
        /\ Cut.m = (IF Terminal THEN [ok |-> TRUE, position |-> "K3"]
                    ELSE IF FirstRule.some
                    THEN [ok |-> TRUE, position |-> FirstRule.v]
                    ELSE [ok |-> FALSE, err |-> "NoMatchingPosition"])
        /\ question.tag = "Ok" => question.v.position = Cut.m.position
        /\ ~Cut.m.ok => question = InvalidPosition("NoMatchingPosition")

\* "*/A:5" has no suffix and no trailing star and a prefix that rule 1
\* resolves to A1: it was resolved to K3, whose prefix it does not have
C23_Witness ==
    /\ One
    /\ patterns[1] = <<"*", "/", "A", ":", "5">>
    /\ Terminal
    /\ Rule1 = Some("A1")
    /\ Cut.m.position = "K3"
    /\ question = InvalidPosition("PrefixVerifyError")

\* the pattern was resolved and has the asterisks its position needs
VerifyReached ==
    /\ One
    /\ Cut.m.ok
    /\ Cut.m.position = "P1" \/ Cut.stars[1]
    /\ Cut.m.position = "K3" \/ Cut.stars[2]

\* the text of the pattern up to the core, the core between the cuts, and
\* the text from the core on
PrefixCut == IF Cut.prefix.some THEN Cut.prefix.v + 1 ELSE 0
SuffixCut == IF Cut.suffix.some THEN Cut.suffix.v ELSE Len(Cut.pattern)
PrefixText == Slice(Cut.pattern, 0, PrefixCut)
SuffixText == Slice(Cut.pattern, SuffixCut, Len(Cut.pattern))
CoreText == Slice(Cut.pattern, PrefixCut, SuffixCut)

Hint == reverse_hint[Cut.m.position]

VerifyError ==
    question \in {InvalidPosition("PrefixVerifyError"),
                  InvalidPosition("SuffixVerifyError")}

\* C24 as stated: the pattern passes verification only if its prefix text
\* ends with the prefix hint and its suffix text starts with the suffix
\* hint, and fails with PrefixVerifyError / SuffixVerifyError otherwise.
C24_TextHoldsHint ==
    VerifyReached =>
        IF ~ends_with(PrefixText, Hint[1])
        THEN question = InvalidPosition("PrefixVerifyError")
        ELSE IF ~starts_with(SuffixText, Hint[2])
        THEN question = InvalidPosition("SuffixVerifyError")
        ELSE ~VerifyError

\* C24: the pattern passes verification only if the prefix hint ends with
\* its prefix text and the suffix hint starts with its suffix text, and
\* fails with PrefixVerifyError / SuffixVerifyError otherwise: a truncated or
\* missing delimiter is tolerated, text beyond the canonical delimiter is
\* rejected.
C24_HintHoldsText ==
    VerifyReached =>
        IF ~ends_with(Hint[1], PrefixText)
        THEN question = InvalidPosition("PrefixVerifyError")
        ELSE IF ~starts_with(Hint[2], SuffixText)
        THEN question = InvalidPosition("SuffixVerifyError")
        ELSE ~VerifyError

\* "*x/A:1+*", with text before the canonical prefix of A1, was rejected
C24_Witness ==
    /\ VerifyReached
    /\ patterns[1] = <<"*", "x", "/", "A", ":", "1", "+", "*">>
    /\ Cut.m.position = "A1"
    /\ ends_with(PrefixText, Hint[1])
    /\ question = InvalidPosition("PrefixVerifyError")

Resolves(p, position, core) ==
    patterns[1] = p =>
        Estimated[p] = [ok |-> TRUE, position |-> position, range |-> core]

C26_EmptyCoreEmptyRange ==
    One =>
        /\ Estimated[patterns[1]].ok => Estimated[patterns[1]].range # << >>
        /\ CoreText = << >> => question = InvalidPosition("EmptyRange")

\* C26: no pattern is resolved with an empty core: a pattern whose text
\* between the two cuts is empty is always rejected, with EmptyRange when
\* its position is resolved, its asterisks are in place and its delimiters
\* pass verification (as "*" and "*/A:*"), and with the error of the
\* earlier check that fails otherwise.
C26_NoEmptyCore ==
    One =>
        /\ Estimated[patterns[1]].ok => Estimated[patterns[1]].range # << >>
        /\ CoreText = << >> =>
              /\ question.tag = "Err"
              /\ question.err = "InvalidPosition"
              /\ question = InvalidPosition("EmptyRange") <=>
                    /\ VerifyReached
                    /\ ends_with(Hint[1], PrefixText)
                    /\ starts_with(Hint[2], SuffixText)

\* "*/A:*" was rejected with EmptyRange
C26_Witness ==
    /\ One
    /\ patterns[1] = <<"*", "/", "A", ":", "*">>
    /\ CoreText = << >>
    /\ question = InvalidPosition("EmptyRange")

\* C27 as stated: for every entry (p, s) of the combination table, the
\* single-byte forward table has no entry for p, the single-byte backward
\* table has none for s, and s is not '/'.
C27_CombinationDisjoint ==
    One =>
        \A e \in DOMAIN CombinationTable :
            /\ e[1] \notin DOMAIN SingleForwardTable
            /\ e[2] \notin DOMAIN SingleReverseTable
            /\ e[2] # "/"

\* C27: an entry (p, s) of the combination table whose p the single-byte
\* forward table knows, or whose s the single-byte backward table knows,
\* names the same position as that table, so that a pattern with the
\* delimiters of an entry is resolved to the entry's position unless a
\* multi-byte rule or the terminal rule applies.
C27_CombinationConsistent ==
    One =>
        /\ \A e \in DOMAIN CombinationTable :
              /\ e[1] \in DOMAIN SingleForwardTable =>
                    SingleForwardTable[e[1]] = CombinationTable[e]
              /\ (e[1] \notin DOMAIN SingleForwardTable
                    /\ e[2] \in DOMAIN SingleReverseTable) =>
                    SingleReverseTable[e[2]] = CombinationTable[e]
        /\ (Rule5.some /\ ~Terminal /\ ~Rule1.some /\ ~Rule3.some) =>
              Cut.m = [ok |-> TRUE, position |-> Rule5.v]

\* "*^1-*": its delimiters are an entry of the combination table and '^' is
\* in the single-byte forward table; it was resolved to P2
C27_Witness ==
    /\ One
    /\ patterns[1] = Pat("P2", <<"1">>)
    /\ Rule2 = Some("P2")
    /\ Rule5 = Some("P2")
    /\ question.tag = "Ok"
    /\ question.v.position = "P2"

\* C28: every failure of AllQuestion::parse is a ParseError value: no
\* numeric core text makes it panic on an overflow or an assertion, and an
\* interval it returns has the bounds meant, not wrapped ones.
C28_ErrorsAsValues ==
    pc # "input" =>
        /\ question.tag # "Panic"
        /\ (/\ question.tag = "Ok"
            /\ question.v.kind \in {"SignedRange", "UnsignedRange"}
            /\ question.v.range.some) =>
              question.v.range.v.start < question.v.range.v.end

\* C29: for every position and every core text of non-delimiter bytes, the
\* canonical pattern of the position around the core resolves to exactly
\* that position and core; so every position is reachable, and no two
\* positions share a canonical pattern.
C29_RoundTrip ==
    One =>
        \A position \in AllPosition, core \in StarCores :
            patterns[1] = Pat(position, core) =>
                /\ Estimated[patterns[1]] =
                      [ok |-> TRUE, position |-> position, range |-> core]
                /\ question.tag = "Ok" => question.v.position = position
                /\ question.tag = "Err" => question.err # "InvalidPosition"

\* the canonical pattern of K3, "*-1", was resolved to K3
C29_Witness ==
    /\ One
    /\ patterns[1] = Pat("K3", <<"1">>)
    /\ Estimated[patterns[1]] =
          [ok |-> TRUE, position |-> "K3", range |-> <<"1">>]
    /\ question.tag = "Ok"
    /\ question.v.position = "K3"

====
